---- MODULE Spec2Model ----
(***************************************************************************)
(* Real-time OHLCV ingestion engine of the trading support dashboard:      *)
(* BinanceWebSocketService (services/ingestion-service/main.py).           *)
(*                                                                         *)
(* The model follows one service instance from start(): the connect loop   *)
(* of start, the receive loop of listen_and_process, the batch buffer and  *)
(* flush_batch / _batch_insert_candles writing to the ohlcv_candles table  *)
(* through one SQLAlchemy session on PostgreSQL, and the candle_update     *)
(* events published on the event bus.                                      *)
(*                                                                         *)
(* Prices and volumes are small integers standing for exact decimals.      *)
(* Time is kept as the seconds elapsed since last_batch_flush, saturating  *)
(* at WS_BATCH_TIMEOUT: the code reads the clock only to compare           *)
(* time.time() - last_batch_flush with batch_timeout.                      *)
(***************************************************************************)
EXTENDS Integers, Sequences, FiniteSets, TLC

VARIABLES
    pc,                 \* "start": in start()'s loop; "listen": in listen_and_process; "stopped"
    exit_cause,         \* the exception that left listen_and_process, "none" while running
    is_connected,       \* self.is_connected
    websocket,          \* self.websocket: "None" or "ws"
    reconnect_delay,    \* self.reconnect_delay
    batch_buffer,       \* self.batch_buffer
    since_batch_flush,  \* time.time() - self.last_batch_flush, saturating
    db,                 \* listen_and_process's session: "None", "ok", or "failed" (transaction aborted)
    ohlcv_candles,      \* committed rows of table ohlcv_candles
    published,          \* seq numbers of the candles a candle_update event was published for
    received,           \* history: the kline events accepted into the buffer, in order
    fate,               \* history: per received event "buffered", "committed", "skipped", "failed"
    attempts,           \* history: per received event, the number of flushes it took part in
    write_log,          \* history: seq numbers written by the latest flush, in statement order
    fails,              \* history: consecutive failed connection attempts since the last open or start
    waited,             \* history: the sleep that preceded the latest failed connection attempt
    ping_failed,        \* history: the latest loop iteration was a receive timeout whose ping raised
    final_batch,        \* history: self.batch_buffer when the finally block of listen_and_process began
    final_flushes,      \* history: calls of flush_batch made by that finally block
    parse_errors,       \* self.parse_errors
    \* connect_and_subscribe taken alone
    symbols,            \* its argument symbols (symbol k stands for the k-th name)
    timeframes,         \* its argument timeframes
    url_streams,        \* the stream names of the URL it built, as <<symbol, interval>>
    connect_result,     \* "none" before the call, "refused" (returned False before
                        \* connecting), "opened", or "failed" (websockets.connect raised)
    \* main() and the hourly refresh
    main_pc,            \* "init", "seeded" (market metrics ingested), "running" (the
                        \* WebSocket service launched with symbols, timeframes), "failed"
    market_data,        \* table market_data: per symbol "absent", "partial" (rows, none with
                        \* market_cap and volume_24h) or "full"
    perpetuals,         \* the exchange's PERPETUAL / TRADING symbols
    top_coins,          \* the symbols of the top-market-cap answer
    db_timeframes,      \* tf_name of table timeframe, by seconds
    refreshes,          \* hourly refreshes run, counted up to MaxRefreshes
    \* the paged fetches of CoinGeckoIngestionService taken alone
    fetch_kind,         \* "top": fetch_top_market_metrics; "by_symbols": fetch_market_data_by_symbols
    pages_needed,       \* pages (batches of ids) of the requested range
    requests,           \* the pages requested so far, in order
    statuses,           \* the answer to each request: 200, 429, 500, or 0 (the request raised)
    fetch_pc,           \* "running" or "returned"
    \* hourly_market_data_update taken alone
    hourly_now,         \* seconds since the task started
    hourly_attempts,    \* the refreshes attempted: [at, outcome]
    hourly_pc,          \* "running" or "cancelled"
    \* flush_batch taken alone
    flush_args,         \* the state a call of flush_batch starts from: db, batch_buffer,
                        \* total_batches_flushed, total_candles_batched, and where the
                        \* database fails (fp)
    flush_ret,          \* None before the call, then what the call returned and did
    \* BinanceIngestionService.ingest_all_symbols (REST backfill) taken alone
    rest_pc,            \* "idle", or "gathering": inside asyncio.gather
    rest_task,          \* per symbol, the position of its ingest_symbol task: "pending"
                        \* (before the await of fetch_klines), "fetched", "done";
                        \* "none" before the first call
    rest_klines,        \* per symbol, what fetch_klines returned
    rest_fault,         \* history: per symbol, the step of its own task that failed, or "none"
    rest_table,         \* committed rows of table ohlcv_candles
    rest_saves,         \* history: per symbol, the calls of save_candles that committed
    rest_runs,          \* calls of ingest_all_symbols that returned or raised
    rest_raised,        \* an exception left ingest_all_symbols
    \* get_or_create_symbol_record and table symbols taken alone
    stored_image,       \* committed image_path per symbol: "absent" (no row), "NULL", "" or a path
    session_image,      \* the same as the open transaction of the session sees it
    symbol_db,          \* the session: "ok" or "failed" (transaction aborted)
    symbol_op,          \* history: the latest step, op "call" (with its arguments),
                        \* "commit", "rollback" or "none"
    \* get_zigzag_points (strategy engine) taken alone
    zigzag_df,          \* the bars df and the direction array calculate_zigzag derives
                        \* from them, None when the swings are given directly
    all_swings,         \* all_swings after step 1, None before
    swing_pruning_rate, \* the argument swing_pruning_rate, a fraction [num, den]
    zigzag_ret,         \* None before the return, then filtered_swings and the two
                        \* lists returned
    \* calculate_fibonacci_levels and AlertGenerator.generate_alerts taken alone
    fib_args,           \* swing_highs, swing_lows and the StrategyConfig values
    fib_pc,             \* "args", "levels" (calculate_fibonacci_levels returned),
                        \* "alerts" (generate_alerts returned)
    fib_levels,         \* the FibResult list of calculate_fibonacci_levels
    alerts,             \* the alerts generate_alerts returned for those levels
    \* configuration and the strategy engine's pure functions taken alone
    max_reconnect_delay, \* self.max_reconnect_delay, set from WS_MAX_RECONNECT_DELAY
    zigzag_result,      \* None before calculate_zigzag returns, then its arrays hr, lr,
                        \* direction and z2
    swing_call,         \* a call of filter_rate, filter_between or
                        \* enforce_strict_alternation (swing_high_low.py): fn and arguments
    swing_ret           \* None before the call returns, then the lists it returned

serviceVars ==
    <<pc, exit_cause, is_connected, websocket, reconnect_delay, batch_buffer,
      since_batch_flush, db, ohlcv_candles, published, received, fate, attempts,
      write_log, fails, waited, ping_failed, final_batch, final_flushes,
      parse_errors>>

subscribeVars == <<symbols, timeframes, url_streams, connect_result>>

startupVars == <<main_pc, market_data, perpetuals, top_coins, db_timeframes, refreshes>>

flushVars == <<flush_args, flush_ret>>

restVars ==
    <<rest_pc, rest_task, rest_klines, rest_fault, rest_table, rest_saves, rest_runs,
      rest_raised>>

\* the variables of the parts taken alone, which the receive loop leaves as they are
fetchVars == <<fetch_kind, pages_needed, requests, statuses, fetch_pc>>

hourlyVars == <<hourly_now, hourly_attempts, hourly_pc>>

earlierVars == <<subscribeVars, startupVars, fetchVars, hourlyVars>>

symbolVars == <<stored_image, session_image, symbol_db, symbol_op>>

zigzagVars == <<zigzag_df, all_swings, swing_pruning_rate, zigzag_ret>>

alertVars == <<fib_args, fib_pc, fib_levels, alerts>>

configVars == <<max_reconnect_delay>>

calcVars == <<zigzag_result>>

swingVars == <<swing_call, swing_ret>>

furtherVars == <<configVars, calcVars, swingVars>>

laterVars == <<flushVars, restVars, symbolVars, zigzagVars, alertVars, furtherVars>>

Elsewhere == <<earlierVars, laterVars>>

vars == <<serviceVars, Elsewhere>>

(***************************************************************************)
(* Bounds of the model and configuration.                                  *)
(***************************************************************************)
MaxEvents == 2              \* kline events accepted into the buffer in one run
MaxFails == 3               \* consecutive failed connection attempts followed
MaxParseErrors == 1         \* parse exceptions counted in one run
WS_BATCH_SIZE == 2          \* shared.config, environment-derived
WS_BATCH_TIMEOUT == 1       \* shared.config, environment-derived (seconds)
WS_MAX_RECONNECT_DELAY == 4 \* shared.config, environment-derived (seconds)
RECV_TIMEOUT == 30          \* asyncio.wait_for(self.websocket.recv(), timeout=30.0)

Min(a, b) == IF a < b THEN a ELSE b
Max(a, b) == IF a > b THEN a ELSE b

(***************************************************************************)
(* The exchange's messages.  A frame is either text that is not JSON, or a *)
(* JSON object with event type e and the fields of its k object: s symbol, *)
(* i interval, t open time, o h l c v, x closed.  "" stands for a missing  *)
(* string field, 0 for a missing open time.                                *)
(***************************************************************************)
CandleA == [o |-> 1, h |-> 3, l |-> 1, c |-> 3, v |-> 1]
CandleB == [o |-> 2, h |-> 2, l |-> 2, c |-> 2, v |-> 2]

Frame(json, e, s, i, t, p, x) ==
    [json |-> json, e |-> e, s |-> s, i |-> i, t |-> t,
     o |-> p.o, h |-> p.h, l |-> p.l, c |-> p.c, v |-> p.v, x |-> x]

\* klines of BTCUSDT/1m: the bar opening at 1, and the close of the next bar
KlineFrames ==
    {Frame(TRUE, "kline", "BTCUSDT", "1m", 1, p, x) : p \in {CandleA, CandleB}, x \in BOOLEAN}
        \cup {Frame(TRUE, "kline", "BTCUSDT", "1m", 2, CandleB, TRUE)}

\* a closed kline of an interval that has no row in table timeframe
UnknownTimeframeFrames ==
    {Frame(TRUE, "kline", "BTCUSDT", "7m", 1, CandleA, TRUE)}

OtherFrames ==
    { Frame(FALSE, "", "", "", 0, CandleA, FALSE),                              \* not JSON
      Frame(TRUE, "aggTrade", "BTCUSDT", "", 0, CandleA, FALSE),               \* another event type
      Frame(TRUE, "kline", "BTCUSDT", "1m", 1,
            [o |-> 1, h |-> 1, l |-> 2, c |-> 1, v |-> 1], FALSE),             \* high < low
      Frame(TRUE, "kline", "", "1m", 1, CandleA, FALSE) }                      \* k without s

Frames == KlineFrames \cup UnknownTimeframeFrames \cup OtherFrames

\* a price or volume field whose text float() cannot convert
Malformed == 0 - 1000

\* klines with positive prices and high >= low, but open above high
InconsistentFrames ==
    {Frame(TRUE, "kline", "BTCUSDT", "1m", 1,
           [o |-> 3, h |-> 2, l |-> 1, c |-> 1, v |-> 1], TRUE)}

\* klines that parse_kline_message rejects for their prices: one of o, h, l, c
\* not positive, or high < low
InvalidPriceFrames ==
    { Frame(TRUE, "kline", "BTCUSDT", "1m", 1,
            [o |-> 0, h |-> 3, l |-> 1, c |-> 3, v |-> 1], FALSE),             \* o = 0
      Frame(TRUE, "kline", "BTCUSDT", "1m", 1,
            [o |-> 1, h |-> 1, l |-> 2, c |-> 1, v |-> 1], FALSE) }            \* high < low

\* klines on which float() raises
MalformedFrames ==
    {Frame(TRUE, "kline", "BTCUSDT", "1m", 1,
           [o |-> 1, h |-> 3, l |-> 1, c |-> 3, v |-> Malformed], FALSE)}

\* every payload considered: the frames above and the well-formed ones
PayloadFrames ==
    Frames \cup InconsistentFrames \cup InvalidPriceFrames \cup MalformedFrames

\* rows of table timeframe (tf_name)
TimeframeTable == {"1m"}

None == [none |-> TRUE]

\* parse_kline_message raises inside its try block: float() on text that is
\* not a number (lines 793-797), reached after the event type and open time
\* tests
ParseRaises(m) ==
    /\ m.json
    /\ m.e = "kline"
    /\ m.t # 0
    /\ Malformed \in {m.o, m.h, m.l, m.c, m.v}

\* parse_kline_message: the canonical kline dict, or None
parse_kline_message(m) ==
    IF m.e # "kline" THEN None
    ELSE IF m.t = 0 THEN None
    ELSE IF ParseRaises(m) THEN None
    ELSE IF ~(m.o > 0 /\ m.h > 0 /\ m.l > 0 /\ m.c > 0) THEN None
    ELSE IF m.h < m.l THEN None
    ELSE [symbol |-> m.s, timeframe |-> m.i, timestamp |-> m.t,
          open |-> m.o, high |-> m.h, low |-> m.l, close |-> m.c,
          volume |-> m.v, is_closed |-> m.x]

\* save_candle_from_websocket's validation of the required fields
HasRequiredFields(kline_data) ==
    kline_data.symbol # "" /\ kline_data.timeframe # "" /\ kline_data.timestamp # 0

(***************************************************************************)
(* Table ohlcv_candles: a set of rows, unique on (symbol, timeframe,       *)
(* timestamp).  Symbols are created on first use, so the symbol name       *)
(* stands for symbol_id; timeframe_id resolves for the names in            *)
(* TimeframeTable only.                                                    *)
(***************************************************************************)
Key(r) == <<r.symbol, r.timeframe, r.timestamp>>

Row(c) ==
    [symbol |-> c.symbol, timeframe |-> c.timeframe, timestamp |-> c.timestamp,
     open |-> c.open, high |-> c.high, low |-> c.low, close |-> c.close,
     volume |-> c.volume]

\* the closed policy as ON CONFLICT DO NOTHING: an existing row is kept
UpsertClosedKeep(rows, c) ==
    IF \E r \in rows : Key(r) = Key(c) THEN rows ELSE rows \cup {Row(c)}

\* INSERT ... ON CONFLICT DO UPDATE SET open, high, low, close, volume = EXCLUDED
UpsertClosed(rows, c) ==
    IF \E r \in rows : Key(r) = Key(c)
    THEN {IF Key(r) = Key(c)
          THEN [r EXCEPT !.open = c.open, !.high = c.high, !.low = c.low,
                         !.close = c.close, !.volume = c.volume]
          ELSE r : r \in rows}
    ELSE rows \cup {Row(c)}

\* the in-progress policy without GREATEST / LEAST: high and low overwritten
UpsertInProgressOverwrite(rows, c) ==
    IF \E r \in rows : Key(r) = Key(c)
    THEN {IF Key(r) = Key(c)
          THEN [r EXCEPT !.high = c.high, !.low = c.low,
                         !.close = c.close, !.volume = c.volume]
          ELSE r : r \in rows}
    ELSE rows \cup {Row(c)}

\* INSERT ... ON CONFLICT DO UPDATE SET high = GREATEST, low = LEAST, close, volume = EXCLUDED
UpsertInProgress(rows, c) ==
    IF \E r \in rows : Key(r) = Key(c)
    THEN {IF Key(r) = Key(c)
          THEN [r EXCEPT !.high = Max(r.high, c.high), !.low = Min(r.low, c.low),
                         !.close = c.close, !.volume = c.volume]
          ELSE r : r \in rows}
    ELSE rows \cup {Row(c)}

\* db.execute(stmt, params_list): the statement run once per parameter set, in list order
RECURSIVE Execute(_, _, _)
Execute(rows, params_list, is_closed) ==
    IF params_list = <<>> THEN rows
    ELSE Execute(IF is_closed THEN UpsertClosed(rows, Head(params_list))
                 ELSE UpsertInProgress(rows, Head(params_list)),
                 Tail(params_list), is_closed)

(***************************************************************************)
(* The session.  "failed" is a session whose PostgreSQL transaction is     *)
(* aborted by an earlier statement error: every statement fails until      *)
(* rollback, and COMMIT ends the transaction as a rollback without error.  *)
(*                                                                         *)
(* FailPoints: the place where the database first fails during one flush.  *)
(* "lookup" is a failure inside get_or_create_symbol_record or             *)
(* get_timeframe_id, which log it and return None.  "rollback" is a        *)
(* commit that raises followed by a rollback that raises too.              *)
(***************************************************************************)
FailPoints == {"none", "lookup", "closed_stmt", "in_progress_stmt", "commit", "rollback"}

\* the candles whose symbol_id and timeframe_id resolve (lines 882-917)
ParamsList(sess, candles) ==
    IF sess = "ok"
    THEN SelectSeq(candles, LAMBDA c : HasRequiredFields(c) /\ c.timeframe \in TimeframeTable)
    ELSE <<>>

SeqNumbers(candles) == {candles[i].seq : i \in 1..Len(candles)}

SeqList(candles) == [i \in 1..Len(candles) |-> candles[i].seq]

\* the candles a candle_update is published for after a successful execute (lines 954-965)
PublishedBy(candles, params_list) ==
    SeqNumbers(SelectSeq(candles, LAMBDA c : c.is_closed))

\* _batch_insert_candles(db, candles, is_closed), on session state sess and the
\* transaction's view rows of the table; stmt_fails: the bulk statement raises
BatchInsertCandles(sess, rows, candles, is_closed, stmt_fails) ==
    LET params_list == ParamsList(sess, candles)
        skipped == Len(candles) - Len(params_list)
    IN  IF params_list = <<>>
        THEN [sess |-> sess, rows |-> rows, saved |-> 0, failed |-> skipped,
              published |-> {}, log |-> <<>>]
        ELSE IF stmt_fails
        THEN [sess |-> "failed", rows |-> rows, saved |-> 0,
              failed |-> skipped + Len(params_list), published |-> {}, log |-> <<>>]
        ELSE [sess |-> sess, rows |-> Execute(rows, params_list, is_closed),
              saved |-> Len(params_list), failed |-> skipped,
              published |-> PublishedBy(candles, params_list),
              log |-> SeqList(params_list)]

\* the order in which flush_batch hands the two partitions to _batch_insert_candles
FlushOrder(batch) ==
    << [candles |-> SelectSeq(batch, LAMBDA c : c.is_closed), is_closed |-> TRUE],
       [candles |-> SelectSeq(batch, LAMBDA c : ~c.is_closed), is_closed |-> FALSE] >>

\* a flush_batch that copies the buffer and does not clear it
BufferAfterFlushKept(batch) == batch

\* what flush_batch leaves in self.batch_buffer (lines 838-839)
BufferAfterFlush(batch) == <<>>

\* flush_batch(db) on a non-empty batch; fp: where the database fails.
\* Result: the session state, the committed table, the counts, the events
\* published, the statement log, whether the rows were committed, and whether
\* the call raised (rollback failed).
FlushBatch(sess, table, batch, fp) ==
    LET parts == FlushOrder(batch)
        sess0 == IF fp = "lookup" THEN "failed" ELSE sess
        nothing == [sess |-> sess0, rows |-> table, saved |-> 0, failed |-> 0,
                    published |-> {}, log |-> <<>>]
        stmt_fp(p) == IF p.is_closed THEN "closed_stmt" ELSE "in_progress_stmt"
        r1 == IF parts[1].candles # <<>>
              THEN BatchInsertCandles(sess0, table, parts[1].candles, parts[1].is_closed,
                                      fp = stmt_fp(parts[1]))
              ELSE nothing
        r2 == IF parts[2].candles # <<>>
              THEN BatchInsertCandles(r1.sess, r1.rows, parts[2].candles, parts[2].is_closed,
                                      fp = stmt_fp(parts[2]))
              ELSE [r1 EXCEPT !.saved = 0, !.failed = 0, !.published = {}, !.log = <<>>]
        saved_count == r1.saved + r2.saved
        failed_count == r1.failed + r2.failed
        pub == r1.published \cup r2.published
        log == r1.log \o r2.log
    IN  IF saved_count > 0
        THEN IF r2.sess = "failed"
             THEN \* db.commit() on the aborted transaction: ends it, nothing is kept
                  [sess |-> "ok", table |-> table, saved |-> saved_count,
                   failed |-> failed_count, published |-> pub, log |-> log,
                   committed |-> FALSE, raised |-> FALSE]
             ELSE IF fp \in {"commit", "rollback"}
             THEN \* db.commit() raises: except branch, db.rollback()
                  [sess |-> IF fp = "rollback" THEN "failed" ELSE "ok", table |-> table,
                   saved |-> 0, failed |-> Len(batch), published |-> pub, log |-> log,
                   committed |-> FALSE, raised |-> fp = "rollback"]
             ELSE [sess |-> "ok", table |-> r2.rows, saved |-> saved_count,
                   failed |-> failed_count, published |-> pub, log |-> log,
                   committed |-> TRUE, raised |-> FALSE]
        ELSE [sess |-> r2.sess, table |-> table, saved |-> 0, failed |-> failed_count,
              published |-> pub, log |-> log, committed |-> FALSE, raised |-> FALSE]

(***************************************************************************)
(* Exceptions and the except clauses of listen_and_process.                *)
(***************************************************************************)
Cancellations == {"CancelledError", "KeyboardInterrupt"}    \* BaseException, not Exception

\* what the await of recv can raise
RecvExceptions ==
    {"TimeoutError", "ConnectionClosed", "WebSocketException", "OSError", "CancelledError"}

\* isinstance(exc, Exception)
IsException(exc) == exc \notin Cancellations

\* the except clauses without the final "except Exception"
ListenHandlerNoCatchAll(exc) ==
    IF exc = "TimeoutError" THEN "ping"
    ELSE IF exc \in {"ConnectionClosed", "WebSocketException"} THEN "reconnect"
    ELSE "finally"

\* the except clause of the loop body's try that takes exc (lines 1169-1207),
\* "finally" when none does and exc leaves the loop
ListenHandler(exc) ==
    IF exc = "TimeoutError" THEN "ping"
    ELSE IF exc \in {"ConnectionClosed", "WebSocketException"} THEN "reconnect"
    ELSE IF IsException(exc) THEN "sleep"
    ELSE "finally"

\* elapsed time after a further dt seconds, saturating at WS_BATCH_TIMEOUT
Elapsed(dt) == Min(since_batch_flush + dt, WS_BATCH_TIMEOUT)

\* the call not made: the service of the receive loop subscribes BTCUSDT 1m
SubscribeIdle ==
    /\ symbols = <<1>>
    /\ timeframes = <<"1m">>
    /\ url_streams = <<>>
    /\ connect_result = "none"

\* main() has launched the service with BTCUSDT 1m
StartupIdle ==
    /\ main_pc = "running"
    /\ market_data = [k \in {1} |-> "full"]
    /\ perpetuals = {1}
    /\ top_coins = {1}
    /\ db_timeframes = <<"1m">>
    /\ refreshes = 0

\* no fetch under way
FetchIdle ==
    /\ fetch_kind = "top"
    /\ pages_needed = 1
    /\ requests = <<>>
    /\ statuses = <<>>
    /\ fetch_pc = "returned"

\* the hourly task just created
HourlyIdle ==
    /\ hourly_now = 0
    /\ hourly_attempts = <<>>
    /\ hourly_pc = "running"

\* flush_batch not called: the fields as __init__ leaves them
FlushIdle ==
    /\ flush_args = [db |-> "ok", batch_buffer |-> <<>>, fp |-> "none",
                     total_batches_flushed |-> 0, total_candles_batched |-> 0]
    /\ flush_ret = None

EarlierIdle == SubscribeIdle /\ StartupIdle /\ FetchIdle /\ HourlyIdle

\* no backfill requested
RestIdle ==
    /\ rest_pc = "idle"
    /\ rest_task = <<>>
    /\ rest_klines = <<>>
    /\ rest_fault = <<>>
    /\ rest_table = {}
    /\ rest_saves = <<>>
    /\ rest_runs = 0
    /\ rest_raised = FALSE

\* table symbols untouched
SymbolIdle ==
    /\ stored_image = <<>>
    /\ session_image = <<>>
    /\ symbol_db = "ok"
    /\ symbol_op = [op |-> "none", symbol |-> 0, image_path |-> "NULL"]

\* get_zigzag_points not called
ZigzagIdle ==
    /\ zigzag_df = None
    /\ all_swings = None
    /\ swing_pruning_rate = [num |-> 3, den |-> 100]
    /\ zigzag_ret = None

\* no strategy cycle run
AlertIdle ==
    /\ fib_args = None
    /\ fib_pc = "args"
    /\ fib_levels = <<>>
    /\ alerts = <<>>

\* the service configured from shared.config
ConfigIdle == max_reconnect_delay = WS_MAX_RECONNECT_DELAY

\* calculate_zigzag not called
CalcIdle == zigzag_result = None

\* no post-filter called
SwingIdle ==
    /\ swing_call = None
    /\ swing_ret = None

FurtherIdle == ConfigIdle /\ CalcIdle /\ SwingIdle

LaterIdle == FlushIdle /\ RestIdle /\ SymbolIdle /\ ZigzagIdle /\ AlertIdle /\ FurtherIdle

ElsewhereIdle == EarlierIdle /\ LaterIdle

ServiceInit ==
    /\ pc = "start"
    /\ exit_cause = "none"
    /\ is_connected = FALSE
    /\ websocket = "None"
    /\ reconnect_delay = 1
    /\ batch_buffer = <<>>
    /\ since_batch_flush = 0
    /\ db = "None"
    /\ ohlcv_candles = {}
    /\ published = {}
    /\ received = <<>>
    /\ fate = <<>>
    /\ attempts = <<>>
    /\ write_log = <<>>
    /\ fails = 0
    /\ waited = 0
    /\ ping_failed = FALSE
    /\ final_batch = <<>>
    /\ final_flushes = 0
    /\ parse_errors = 0

Init == ServiceInit /\ ElsewhereIdle

\* history after flushing batch with result res; recv1 and fate1, att1 are the
\* history with the event just buffered, if any
FlushHistory(recv1, fate1, att1, batch, res) ==
    LET flushed == SeqNumbers(batch)
        written == {res.log[i] : i \in 1..Len(res.log)}
    IN  /\ received' = recv1
        /\ fate' = [i \in DOMAIN fate1 |->
                      IF i \notin flushed THEN fate1[i]
                      ELSE IF i \in written /\ res.committed THEN "committed"
                      ELSE IF recv1[i].timeframe \notin TimeframeTable THEN "skipped"
                      ELSE "failed"]
        /\ attempts' = [i \in DOMAIN att1 |->
                          IF i \in flushed THEN att1[i] + 1 ELSE att1[i]]
        /\ write_log' = res.log
        /\ published' = published \cup res.published
        /\ ohlcv_candles' = res.table

Connection == <<is_connected, websocket, reconnect_delay, fails, waited>>
Storage == <<ohlcv_candles, published, received, fate, attempts, write_log>>
Final == <<final_batch, final_flushes>>

\* start(): one turn of its loop.  connect_and_subscribe returns ok; on success
\* listen_and_process is entered, on failure the loop turns again at once.
StartConnect(ok) ==
    /\ pc = "start"
    /\ ping_failed' = FALSE
    /\ UNCHANGED Elsewhere
    /\ UNCHANGED Final
    /\ UNCHANGED parse_errors
    /\ waited' = 0
    /\ IF ok
       THEN /\ is_connected' = TRUE
            /\ websocket' = "ws"
            /\ reconnect_delay' = 1
            /\ fails' = 0
            /\ pc' = "listen"
       ELSE /\ fails < MaxFails
            /\ is_connected' = FALSE
            /\ fails' = fails + 1
            /\ UNCHANGED <<websocket, reconnect_delay, pc>>
    /\ UNCHANGED <<exit_cause, batch_buffer, since_batch_flush, db>>
    /\ UNCHANGED Storage

\* listen_and_process, lines 1066-1087: not connected, so sleep, double the
\* delay, connect, and on success recreate and test the session
Reconnect(ok, test_ok) ==
    /\ pc = "listen"
    /\ ping_failed' = FALSE
    /\ UNCHANGED Elsewhere
    /\ UNCHANGED Final
    /\ UNCHANGED parse_errors
    /\ ~is_connected \/ websocket = "None"
    /\ waited' = IF ok THEN 0 ELSE reconnect_delay
    /\ since_batch_flush' = Elapsed(reconnect_delay)
    /\ IF ok
       THEN /\ is_connected' = TRUE
            /\ websocket' = "ws"
            /\ reconnect_delay' = 1
            /\ fails' = 0
            /\ db' = IF test_ok THEN "ok" ELSE "None"
       ELSE /\ fails < MaxFails
            /\ test_ok
            /\ is_connected' = FALSE
            /\ reconnect_delay' = Min(reconnect_delay * 2, max_reconnect_delay)
            /\ fails' = fails + 1
            /\ UNCHANGED <<websocket, db>>
    /\ UNCHANGED <<pc, exit_cause, batch_buffer>>
    /\ UNCHANGED Storage

\* lines 1089-1100: no session, so create and test one; on failure sleep 1 s
CreateSession(test_ok) ==
    /\ pc = "listen"
    /\ ping_failed' = FALSE
    /\ UNCHANGED Elsewhere
    /\ UNCHANGED Final
    /\ UNCHANGED parse_errors
    /\ is_connected /\ websocket # "None"
    /\ db = "None"
    /\ IF test_ok
       THEN /\ db' = "ok"
            /\ UNCHANGED since_batch_flush
       ELSE /\ db' = "None"
            /\ since_batch_flush' = Elapsed(1)
    /\ UNCHANGED <<pc, exit_cause, batch_buffer>>
    /\ UNCHANGED Connection
    /\ UNCHANGED Storage

\* a loop that flushes on the age of the batch only
ShouldFlushOnAge(buffer, elapsed) == elapsed >= WS_BATCH_TIMEOUT

\* should_flush (lines 1135-1138) after save_candle_from_websocket left buffer
\* in self.batch_buffer, elapsed seconds after the last flush
ShouldFlush(buffer, elapsed) ==
    Len(buffer) >= WS_BATCH_SIZE \/ elapsed >= WS_BATCH_TIMEOUT

Receiving ==
    /\ pc = "listen"
    /\ is_connected /\ websocket # "None"
    /\ db # "None"

\* lines 1102-1167: a frame arrives dt seconds after the previous step; it is
\* parsed, buffered, and the batch is flushed when full or old enough
RecvFrame(m, dt) ==
    /\ Receiving
    /\ ping_failed' = FALSE
    /\ UNCHANGED Elsewhere
    /\ UNCHANGED Final
    /\ ParseRaises(m) => parse_errors < MaxParseErrors
    /\ parse_errors' = IF ParseRaises(m) THEN parse_errors + 1 ELSE parse_errors
    /\ LET kline_data == IF m.json THEN parse_kline_message(m) ELSE None
           success == kline_data # None /\ HasRequiredFields(kline_data)
           entry == [seq |-> Len(received) + 1] @@ kline_data
           buffer1 == IF success THEN Append(batch_buffer, entry) ELSE batch_buffer
           recv1 == IF success THEN Append(received, entry) ELSE received
           fate1 == IF success THEN Append(fate, "buffered") ELSE fate
           att1 == IF success THEN Append(attempts, 0) ELSE attempts
           should_flush == ShouldFlush(buffer1, Elapsed(dt))
       IN  IF kline_data = None
           THEN \* json.loads failed, or parse_kline_message returned None
                /\ since_batch_flush' = Elapsed(dt)
                /\ UNCHANGED <<batch_buffer, db>>
                /\ UNCHANGED Storage
           ELSE /\ success => Len(received) < MaxEvents
                /\ IF should_flush /\ buffer1 # <<>>
                   THEN \E fp \in FailPoints :
                        LET res == FlushBatch(db, ohlcv_candles, buffer1, fp)
                        IN  /\ FlushHistory(recv1, fate1, att1, buffer1, res)
                            \* flush_batch raised: lines 1152-1167 replace the session
                            /\ db' = IF res.raised THEN "ok" ELSE res.sess
                            /\ batch_buffer' = IF res.raised THEN <<>>
                                               ELSE BufferAfterFlush(buffer1)
                            /\ since_batch_flush' = IF res.raised THEN Elapsed(dt) ELSE 0
                   ELSE /\ batch_buffer' = buffer1
                        /\ received' = recv1
                        /\ fate' = fate1
                        /\ attempts' = att1
                        /\ since_batch_flush' = Elapsed(dt)
                        /\ UNCHANGED <<db, ohlcv_candles, published, write_log>>
    /\ UNCHANGED <<pc, exit_cause>>
    /\ UNCHANGED Connection

\* lines 1169-1175: no frame for RECV_TIMEOUT seconds, a ping is sent
RecvTimeout(exc, ping_ok) ==
    /\ Receiving
    /\ ping_failed' = ~ping_ok
    /\ UNCHANGED Elsewhere
    /\ UNCHANGED Final
    /\ UNCHANGED parse_errors
    /\ ListenHandler(exc) = "ping"
    /\ since_batch_flush' = Elapsed(RECV_TIMEOUT)
    /\ UNCHANGED <<pc, exit_cause, batch_buffer, db>>
    /\ UNCHANGED Connection
    /\ UNCHANGED Storage

\* a handler that leaves self.batch_buffer as it finds it
BufferAfterLossKept(batch) == batch

\* self.batch_buffer after the handler of a lost connection: flush_batch
\* cleared it if it ran, line 1204 clears it in any case
BufferAfterLoss(batch) == <<>>

\* lines 1176-1204: the connection is lost; the pending batch is flushed, the
\* session closed and the buffer cleared
ConnectionLost(exc) ==
    /\ Receiving
    /\ ping_failed' = FALSE
    /\ UNCHANGED Elsewhere
    /\ UNCHANGED Final
    /\ UNCHANGED parse_errors
    /\ ListenHandler(exc) = "reconnect"
    /\ is_connected' = FALSE
    /\ websocket' = "None"
    /\ IF batch_buffer # <<>>
       THEN \E fp \in FailPoints :
                FlushHistory(received, fate, attempts, batch_buffer,
                             FlushBatch(db, ohlcv_candles, batch_buffer, fp))
       ELSE UNCHANGED Storage
    /\ db' = "None"
    /\ batch_buffer' = BufferAfterLoss(batch_buffer)
    /\ UNCHANGED <<pc, exit_cause, since_batch_flush, reconnect_delay, fails, waited>>

\* lines 1205-1207: any other Exception is logged, then sleep 1 s
RecvError(exc) ==
    /\ Receiving
    /\ ping_failed' = FALSE
    /\ UNCHANGED Elsewhere
    /\ UNCHANGED Final
    /\ UNCHANGED parse_errors
    /\ ListenHandler(exc) = "sleep"
    /\ since_batch_flush' = Elapsed(1)
    /\ UNCHANGED <<pc, exit_cause, batch_buffer, db>>
    /\ UNCHANGED Connection
    /\ UNCHANGED Storage

\* line 1210, with the flush never called
FinalFlushSkipped(sess, buffer) == FALSE

\* line 1210: if db and self.batch_buffer
FinalFlushNeeded(sess, buffer) == sess # "None" /\ buffer # <<>>

\* lines 1208-1224: exc leaves the loop at one of its awaits (a cancellation
\* at any of them, another BaseException at recv); finally flushes what is
\* buffered and closes the session
LeaveLoop(exc) ==
    /\ pc = "listen"
    /\ ping_failed' = FALSE
    /\ UNCHANGED Elsewhere
    /\ exc \notin Cancellations => Receiving
    /\ UNCHANGED parse_errors
    /\ ListenHandler(exc) = "finally"
    /\ final_batch' = batch_buffer
    /\ IF FinalFlushNeeded(db, batch_buffer)
       THEN /\ \E fp \in FailPoints :
                    FlushHistory(received, fate, attempts, batch_buffer,
                                 FlushBatch(db, ohlcv_candles, batch_buffer, fp))
            /\ batch_buffer' = BufferAfterFlush(batch_buffer)
            /\ final_flushes' = final_flushes + 1
       ELSE UNCHANGED Storage /\ UNCHANGED <<batch_buffer, final_flushes>>
    /\ db' = "None"
    /\ pc' = "stopped"
    /\ exit_cause' = exc
    /\ UNCHANGED since_batch_flush
    /\ UNCHANGED Connection

Delays == 0..WS_BATCH_TIMEOUT

Next ==
    \/ \E ok \in BOOLEAN : StartConnect(ok)
    \/ \E ok, test_ok \in BOOLEAN : Reconnect(ok, test_ok)
    \/ \E test_ok \in BOOLEAN : CreateSession(test_ok)
    \/ \E m \in Frames, dt \in Delays : RecvFrame(m, dt)
    \/ \E exc \in RecvExceptions, ping_ok \in BOOLEAN : RecvTimeout(exc, ping_ok)
    \/ \E exc \in RecvExceptions : ConnectionLost(exc)
    \/ \E exc \in RecvExceptions : RecvError(exc)
    \/ \E exc \in RecvExceptions \cup Cancellations : LeaveLoop(exc)

Spec == Init /\ [][Next]_vars

\* the same service fed with every payload of PayloadFrames
PayloadNext ==
    \/ \E ok \in BOOLEAN : StartConnect(ok)
    \/ \E ok, test_ok \in BOOLEAN : Reconnect(ok, test_ok)
    \/ \E test_ok \in BOOLEAN : CreateSession(test_ok)
    \/ \E m \in PayloadFrames, dt \in Delays : RecvFrame(m, dt)
    \/ \E exc \in RecvExceptions, ping_ok \in BOOLEAN : RecvTimeout(exc, ping_ok)
    \/ \E exc \in RecvExceptions : ConnectionLost(exc)
    \/ \E exc \in RecvExceptions : RecvError(exc)
    \/ \E exc \in RecvExceptions \cup Cancellations : LeaveLoop(exc)

PayloadSpec == Init /\ [][PayloadNext]_vars

(***************************************************************************)
(* Properties.                                                             *)
(***************************************************************************)
Events == DOMAIN received

\* the received events of the bar with key k, as seq numbers
EventsOf(k) == {i \in Events : Key(received[i]) = k}

Bars == {Key(received[i]) : i \in Events}

RowsOf(k) == {r \in ohlcv_candles : Key(r) = k}

MaxOf(S) == CHOOSE x \in S : \A y \in S : y <= x
MinOf(S) == CHOOSE x \in S : \A y \in S : x <= y

\* C1 (as claimed): for a bar whose in-progress events were followed by its
\* closed event, all of them flushed and committed without database error,
\* the table holds exactly one row for the bar and it carries the closed
\* event's open, high, low, close and volume, however the events were split
\* across flushes.
C1AsClaimed ==
    \A k \in Bars :
        LET evs == EventsOf(k)
            last == MaxOf(evs)
        IN  ( /\ Cardinality(evs) >= 2
              /\ received[last].is_closed
              /\ \A i \in evs \ {last} : ~received[i].is_closed
              /\ \A i \in evs : fate[i] = "committed" )
            => RowsOf(k) = {Row(received[last])}

\* C2 (as claimed): within one flush the events of one (symbol, timeframe)
\* are written in the order in which they were received, whatever their
\* closed / in-progress status.
C2AsClaimed ==
    \A i, j \in 1..Len(write_log) :
        ( /\ i < j
          /\ received[write_log[i]].symbol = received[write_log[j]].symbol
          /\ received[write_log[i]].timeframe = received[write_log[j]].timeframe )
        => write_log[i] < write_log[j]

\* C3: for a bar that has so far received only in-progress events, none of
\* them lost to a database error, the persisted high is the maximum of the
\* highs of the events written so far and the persisted low the minimum of
\* their lows, over one or more flushes.
C3InProgressExtremes ==
    \A k \in Bars :
        LET evs == EventsOf(k)
            done == {i \in evs : fate[i] = "committed"}
        IN  ( /\ \A i \in evs : ~received[i].is_closed
              /\ \A i \in evs : fate[i] \in {"committed", "buffered"}
              /\ done # {} )
            => /\ Cardinality(RowsOf(k)) = 1
               /\ \A r \in RowsOf(k) :
                    /\ r.high = MaxOf({received[i].high : i \in done})
                    /\ r.low = MinOf({received[i].low : i \in done})

\* a bar with two committed in-progress events, the later with the lower high
\* and the higher low, written by different flushes
C3Witness ==
    \E i, j \in Events :
        /\ i < j
        /\ Key(received[i]) = Key(received[j])
        /\ \A e \in EventsOf(Key(received[i])) :
              ~received[e].is_closed /\ fate[e] = "committed"
        /\ received[j].high < received[i].high
        /\ received[j].low > received[i].low
        /\ write_log = <<j>>

\* C4 (as claimed): a candle_update event is published only for a closed
\* candle whose row was written and committed by the flush: never for an
\* in-progress candle, a skipped candle, or a flush that ends in a rollback
\* or without commit.
C4AsClaimed ==
    \A i \in published : received[i].is_closed /\ fate[i] = "committed"

\* C5 (as claimed): after a database error during a flush the transaction is
\* rolled back before the next flush; the session is never left in a
\* failed-transaction state between two loop iterations.
C5AsClaimed == db # "failed"

\* C6: every event accepted into the buffer takes part in at most one flush
\* attempt, and once flushed (whatever the outcome) it is no longer buffered,
\* so no later flush writes it.
C6FlushedOnce ==
    /\ \A i \in Events : attempts[i] <= 1
    /\ \A i \in Events : (fate[i] = "buffered") <=> (i \in SeqNumbers(batch_buffer))
    /\ \A i \in Events : (fate[i] = "buffered") <=> (attempts[i] = 0)

\* a flush failed and dropped its event, and a later flush ran and committed
C6Witness ==
    \E i, j \in Events :
        /\ i < j
        /\ fate[i] = "failed" /\ attempts[i] = 1
        /\ fate[j] = "committed" /\ attempts[j] = 1
        /\ RowsOf(Key(received[i])) = {}

\* C7 (as claimed): batch max age.  Whenever candles are buffered and at
\* least WS_BATCH_TIMEOUT has elapsed since the last flush, a flush happens,
\* also when no further message arrives: at the end of every loop iteration
\* (a frame handled, or a receive timed out) a non-empty buffer is younger
\* than WS_BATCH_TIMEOUT.
C7AsClaimed ==
    (pc = "listen" /\ batch_buffer # <<>>) => since_batch_flush < WS_BATCH_TIMEOUT

RECURSIVE Pow2(_)
Pow2(n) == IF n = 0 THEN 1 ELSE 2 * Pow2(n - 1)

\* C8 (as claimed): counted from the last successful open or from service
\* start, the k-th consecutive failed connection attempt is followed by a
\* wait of min(2^(k-1), WS_MAX_RECONNECT_DELAY) seconds before the next
\* attempt, in start as in listen_and_process.  Here the next attempt has
\* failed too: it is the (k+1)-th failure and waited is the sleep before it.
C8AsClaimed ==
    fails >= 2 => waited = Min(Pow2(fails - 2), WS_MAX_RECONNECT_DELAY)

\* C9 (as claimed): when a receive times out and the keepalive ping that
\* follows fails, the connection leaves OPEN: is_connected becomes false and
\* the loop takes the reconnect path instead of receiving on the same socket.
C9AsClaimed == ping_failed => (~is_connected /\ ~Receiving)

\* C10: listen_and_process ends only through cancellation: whenever it has
\* stopped, the exception that left the loop is a cancellation, and while
\* none has been raised the loop is still running, whatever JSON errors,
\* rejected klines, failed flushes, failed session tests and connection
\* losses have happened, and can take its next step (reconnect, create a
\* session, or receive).
C10OnlyCancellationStops ==
    /\ pc = "stopped" => exit_cause \in Cancellations
    /\ pc # "stopped" => exit_cause = "none"
    /\ pc = "listen" =>
          ENABLED ( \/ Reconnect(TRUE, TRUE)
                    \/ CreateSession(TRUE)
                    \/ \E m \in OtherFrames : RecvFrame(m, 0) )

\* after a failed flush the loop is still receiving and has buffered a later
\* message
C10Witness ==
    /\ pc = "listen"
    /\ Receiving
    /\ \E i, j \in Events : i < j /\ fate[i] = "failed" /\ fate[j] = "buffered"

\* C11: when listen_and_process is cancelled while candles are buffered, the
\* finally block makes exactly one flush attempt with them before the
\* session is closed: every candle buffered at the cancellation has taken
\* part in a flush, none is left in the buffer, and the session is released.
C11FinalFlush ==
    (pc = "stopped" /\ final_batch # <<>>) =>
        /\ final_flushes = 1
        /\ \A i \in SeqNumbers(final_batch) : attempts[i] = 1 /\ fate[i] # "buffered"
        /\ batch_buffer = <<>>
        /\ db = "None"

\* a cancellation with one candle buffered, which the final flush committed
C11Witness ==
    /\ pc = "stopped"
    /\ exit_cause = "CancelledError"
    /\ Len(final_batch) = 1
    /\ final_flushes = 1
    /\ fate[final_batch[1].seq] = "committed"
    /\ write_log = <<final_batch[1].seq>>

\* C12 (as claimed): every row of ohlcv_candles satisfies
\* high >= max(open, close) >= min(open, close) >= low > 0, for every kline
\* payload the exchange can send.
C12AsClaimed ==
    \A r \in ohlcv_candles :
        /\ r.high >= Max(r.open, r.close)
        /\ Min(r.open, r.close) >= r.low
        /\ r.low > 0

\* C15 (as claimed): every kline message rejected because one of o, h, l, c
\* is not positive or because high < low increases parse_errors by exactly
\* one and leaves the batch buffer as it was.
C15AsClaimed ==
    [][ \A m \in InvalidPriceFrames, dt \in Delays :
            RecvFrame(m, dt) =>
                /\ parse_errors' = parse_errors + 1
                /\ batch_buffer' = batch_buffer ]_vars

(***************************************************************************)
(* connect_and_subscribe taken alone: the stream names it builds for the   *)
(* symbols and timeframes it is given, and whether it opens a connection.  *)
(***************************************************************************)
MaxSymbols == 101           \* symbols handed to connect_and_subscribe
STREAM_LIMIT == 200         \* streams = streams[:200]

\* the timeframe lists handed over: none, table intervals, an upper-case
\* spelling, and the unknown interval "7m"
TimeframeLists ==
    {<<>>, <<"1m">>, <<"1m", "1h">>, <<"1H">>, <<"1M">>, <<"7m">>, <<"1m", "7m">>}

\* str.lower() on the timeframe names in use
Lower(tf) == IF tf = "1H" THEN "1h" ELSE IF tf = "1M" THEN "1m" ELSE tf

valid_intervals ==
    {"1m", "3m", "5m", "15m", "30m", "1h", "2h", "4h", "6h", "8h", "12h", "1d", "3d", "1w", "1M"}

\* timeframe_map.get(normalized, timeframe), normalized lower-case except "1M"
map_timeframe_to_binance_interval(timeframe) ==
    LET normalized == IF timeframe # "1M" THEN Lower(timeframe) ELSE "1M"
    IN  IF normalized \in valid_intervals THEN normalized ELSE timeframe

build_stream_name(symbol, interval) ==
    <<symbol, map_timeframe_to_binance_interval(interval)>>

\* the streams of the multi-stream URL: one per symbol and timeframe, symbols
\* outermost, cut to the first STREAM_LIMIT
build_multi_stream_url(syms, tfs) ==
    LET n == Len(syms) * Len(tfs)
        streams == [j \in 1..n |->
                      build_stream_name(syms[((j - 1) \div Len(tfs)) + 1],
                                        tfs[((j - 1) % Len(tfs)) + 1])]
    IN  IF n > STREAM_LIMIT THEN SubSeq(streams, 1, STREAM_LIMIT) ELSE streams

SubscribeInit ==
    /\ ServiceInit
    /\ StartupIdle /\ FetchIdle /\ HourlyIdle /\ LaterIdle
    /\ \E n \in 0..MaxSymbols : symbols = [k \in 1..n |-> k]
    /\ timeframes \in TimeframeLists
    /\ url_streams = <<>>
    /\ connect_result = "none"

\* connect_and_subscribe(symbols, timeframes); connect_ok: websockets.connect
\* returns within its timeout
ConnectAndSubscribe(connect_ok) ==
    /\ connect_result = "none"
    /\ IF symbols = <<>> \/ timeframes = <<>>
       THEN /\ connect_result' = "refused"
            /\ url_streams' = <<>>
       ELSE /\ url_streams' =
                  IF Len(symbols) * Len(timeframes) > 1
                  THEN build_multi_stream_url(symbols, timeframes)
                  ELSE <<build_stream_name(symbols[1], timeframes[1])>>
            /\ connect_result' = IF connect_ok THEN "opened" ELSE "failed"
    /\ UNCHANGED <<symbols, timeframes>>
    /\ UNCHANGED serviceVars
    /\ UNCHANGED <<startupVars, fetchVars, hourlyVars, laterVars>>

SubscribeNext == \E connect_ok \in BOOLEAN : ConnectAndSubscribe(connect_ok)

SubscribeSpec == SubscribeInit /\ [][SubscribeNext]_vars

\* the streams of the universe handed over
Universe ==
    {build_stream_name(symbols[a], timeframes[b]) :
        a \in 1..Len(symbols), b \in 1..Len(timeframes)}

Subscribed == {url_streams[j] : j \in 1..Len(url_streams)}

\* C13 (as claimed): with more than 200 streams in the universe, every stream
\* of it is subscribed once the service has connected, no connection
\* carrying more than 200.
C13AsClaimed ==
    (connect_result = "opened" /\ Len(symbols) * Len(timeframes) > STREAM_LIMIT) =>
        /\ Universe \subseteq Subscribed
        /\ Len(url_streams) <= STREAM_LIMIT

\* C19 (as claimed): called with a timeframe outside the interval table,
\* connect_and_subscribe returns failure without opening a connection, and
\* builds no stream name for that timeframe.
C19AsClaimed ==
    (connect_result # "none" /\ symbols # <<>>
        /\ \E b \in 1..Len(timeframes) :
              map_timeframe_to_binance_interval(timeframes[b]) \notin valid_intervals) =>
        /\ connect_result = "refused"
        /\ \A j \in 1..Len(url_streams) : url_streams[j][2] \in valid_intervals

(***************************************************************************)
(* main(): the market metrics are ingested, the universe and the           *)
(* timeframes are read and the WebSocket service is launched with them;    *)
(* the hourly refresh then runs beside it.  Symbol k is the symbol of      *)
(* market-cap rank k.                                                      *)
(***************************************************************************)
MaxRank == 3                \* symbols known to the exchange or the market feed
MaxRefreshes == 2           \* hourly refreshes followed

Ranks == 1..MaxRank

DEFAULT_SYMBOLS == <<1, 2>>
DEFAULT_TIMEFRAME == "1m"

RECURSIVE SortedSeq(_)
\* ORDER BY md.market_cap DESC
SortedSeq(S) ==
    IF S = {} THEN <<>>
    ELSE LET first == CHOOSE x \in S : \A y \in S : x <= y
         IN  <<first>> \o SortedSeq(S \ {first})

\* the symbols whose latest row with market_cap and volume_24h exists
Qualified(table) == {k \in DOMAIN table : table[k] = "full"}

\* get_qualified_symbols(db)
get_qualified_symbols(table, query_ok) ==
    IF query_ok THEN SortedSeq(Qualified(table)) ELSE DEFAULT_SYMBOLS

\* get_ingestion_timeframes(db)
get_ingestion_timeframes(rows, query_ok) ==
    IF query_ok /\ rows # <<>> THEN rows ELSE <<DEFAULT_TIMEFRAME>>

\* main, lines 1331-1333, without the fallback
UniverseNoFallback(result) == result

\* main, lines 1331-1333: if not symbols: symbols = DEFAULT_SYMBOLS
UniverseOrDefault(result) == IF result = <<>> THEN DEFAULT_SYMBOLS ELSE result

\* save_market_metrics: a row with market_cap and volume_24h for each coin
SaveMarketMetrics(table, coins) ==
    [k \in DOMAIN table |-> IF k \in coins THEN "full" ELSE table[k]]

StartupInit ==
    /\ ServiceInit
    /\ FetchIdle /\ HourlyIdle /\ LaterIdle
    /\ main_pc = "init"
    /\ market_data \in [Ranks -> {"absent", "partial", "full"}]
    /\ perpetuals \in SUBSET Ranks
    /\ top_coins \in SUBSET Ranks
    /\ db_timeframes \in {<<>>, <<"1m", "1h">>}
    /\ refreshes = 0
    /\ symbols = <<>>
    /\ timeframes = <<>>
    /\ url_streams = <<>>
    /\ connect_result = "none"

\* main, lines 1316-1319: ingest_top_market_metrics, filtered to the
\* perpetual set when that set is not empty; an exception of the save leaves
\* main
IngestTopMarketMetrics(save_ok) ==
    /\ main_pc = "init"
    /\ LET coins_data == top_coins
           filtered == IF perpetuals # {} THEN coins_data \cap perpetuals ELSE coins_data
       IN  IF coins_data = {}
           THEN main_pc' = "seeded" /\ UNCHANGED market_data
           ELSE IF save_ok
           THEN main_pc' = "seeded" /\ market_data' = SaveMarketMetrics(market_data, filtered)
           ELSE main_pc' = "failed" /\ UNCHANGED market_data
    /\ UNCHANGED <<perpetuals, top_coins, db_timeframes, refreshes>>
    /\ UNCHANGED subscribeVars
    /\ UNCHANGED serviceVars
    /\ UNCHANGED <<fetchVars, hourlyVars, laterVars>>

\* main, lines 1325-1367: the timeframes and the qualified symbols are read
\* and ws_service.start(symbols, timeframes) is called
LaunchWebSocket(tf_ok, query_ok) ==
    /\ main_pc = "seeded"
    /\ timeframes' = get_ingestion_timeframes(db_timeframes, tf_ok)
    /\ symbols' = UniverseOrDefault(get_qualified_symbols(market_data, query_ok))
    /\ main_pc' = "running"
    /\ UNCHANGED <<market_data, perpetuals, top_coins, db_timeframes, refreshes>>
    /\ UNCHANGED <<url_streams, connect_result>>
    /\ UNCHANGED serviceVars
    /\ UNCHANGED <<fetchVars, hourlyVars, laterVars>>

\* hourly_market_data_update, one turn: the symbols that have market data
\* are fetched again and the answer saved; fetched is the set the feed
\* answers for
HourlyRefresh(fetched) ==
    /\ main_pc = "running"
    /\ refreshes' = Min(refreshes + 1, MaxRefreshes)
    /\ fetched \subseteq {k \in Ranks : market_data[k] # "absent"}
    /\ market_data' = SaveMarketMetrics(market_data, fetched)
    /\ UNCHANGED <<main_pc, perpetuals, top_coins, db_timeframes>>
    /\ UNCHANGED subscribeVars
    /\ UNCHANGED serviceVars
    /\ UNCHANGED <<fetchVars, hourlyVars, laterVars>>

StartupNext ==
    \/ \E save_ok \in BOOLEAN : IngestTopMarketMetrics(save_ok)
    \/ \E tf_ok, query_ok \in BOOLEAN : LaunchWebSocket(tf_ok, query_ok)
    \/ \E fetched \in SUBSET Ranks : HourlyRefresh(fetched)

StartupSpec == StartupInit /\ [][StartupNext]_vars

\* every step that main() and the hourly task can take is eventually taken
StartupLiveSpec == StartupSpec /\ WF_vars(StartupNext)

\* C14 (as claimed): every symbol of the universe handed to the WebSocket
\* service is a member of the exchange's perpetual set, unless that set was
\* empty, whatever table market_data held before.
C14AsClaimed ==
    (main_pc = "running" /\ perpetuals # {}) =>
        \A k \in 1..Len(symbols) : symbols[k] \in perpetuals

\* C17 (as claimed): when the qualified-symbol set of the database has
\* changed since the running service was launched with it (the launch read
\* the set, not the default list), the subscribed symbols are eventually
\* changed to match the database.
C17AsClaimed ==
    ( /\ main_pc = "running"
      /\ symbols # DEFAULT_SYMBOLS
      /\ symbols # UniverseOrDefault(SortedSeq(Qualified(market_data))) )
        ~> (symbols = UniverseOrDefault(SortedSeq(Qualified(market_data))))

MaxPages == 4               \* pages of one fetch
RATE_LIMIT_SLEEP == 60      \* await asyncio.sleep(60) after a 429

Statuses == {200, 429, 500, 0}

FetchInit ==
    /\ ServiceInit
    /\ SubscribeIdle /\ StartupIdle /\ HourlyIdle /\ LaterIdle
    /\ fetch_kind \in {"top", "by_symbols"}
    /\ pages_needed \in 1..MaxPages
    /\ requests = <<>>
    /\ statuses = <<>>
    /\ fetch_pc = "running"

\* what the loop body does with the answer: "next" (the loop goes to its
\* next page), "break", or "raise" (except Exception: return [])
AfterResponse(status) ==
    IF status = 200 THEN "next"
    ELSE IF status = 429 THEN "next"      \* sleep(60), then continue
    ELSE IF status = 0 THEN "raise"
    ELSE "break"

\* one turn of `for page in range(1, pages_needed + 1)` (of `for i in
\* range(0, len(coin_ids), batch_size)` in fetch_market_data_by_symbols)
FetchPage(status) ==
    /\ fetch_pc = "running"
    /\ LET page == Len(requests) + 1
       IN  /\ requests' = Append(requests, page)
           /\ statuses' = Append(statuses, status)
           /\ fetch_pc' = IF AfterResponse(status) = "next" /\ page < pages_needed
                          THEN "running" ELSE "returned"
    /\ UNCHANGED <<fetch_kind, pages_needed>>
    /\ UNCHANGED serviceVars
    /\ UNCHANGED <<subscribeVars, startupVars, hourlyVars, laterVars>>

FetchNext == \E status \in Statuses : FetchPage(status)

FetchSpec == FetchInit /\ [][FetchNext]_vars

\* C16 (as claimed): a page answered with 429 is requested again, once: the
\* request after a first 429 is for the same page, and the fetch does not
\* return with that page never requested again.
C16AsClaimed ==
    \A j \in 1..Len(requests) :
        (statuses[j] = 429 /\ (j = 1 \/ requests[j - 1] # requests[j])) =>
            /\ j < Len(requests) => requests[j + 1] = requests[j]
            /\ fetch_pc = "returned" => j < Len(requests)

(***************************************************************************)
(* hourly_market_data_update: sleep an hour, refresh, and on an exception  *)
(* sleep a minute.                                                         *)
(***************************************************************************)
MaxAttempts == 3            \* refreshes attempted in one run
HOUR == 3600                \* await asyncio.sleep(3600)
RETRY_SLEEP == 60           \* await asyncio.sleep(60)
MaxDuration == 1            \* seconds a refresh takes, at most

\* "ok"; "no_symbols" (nothing to refresh, a warning); "error": an exception
\* of the query, the fetch or the save
Outcomes == {"ok", "no_symbols", "error"}

HourlyInit ==
    /\ ServiceInit
    /\ SubscribeIdle /\ StartupIdle /\ FetchIdle /\ LaterIdle
    /\ HourlyIdle

\* one turn of the while loop: sleep(3600), the refresh taking d seconds,
\* and on an exception sleep(60)
HourlyTurn(outcome, d) ==
    /\ hourly_pc = "running"
    /\ Len(hourly_attempts) < MaxAttempts
    /\ LET at == hourly_now + HOUR
       IN  /\ hourly_attempts' = Append(hourly_attempts, [at |-> at, outcome |-> outcome])
           /\ hourly_now' = IF outcome = "error" THEN at + d + RETRY_SLEEP ELSE at + d
    /\ UNCHANGED hourly_pc
    /\ UNCHANGED serviceVars
    /\ UNCHANGED <<subscribeVars, startupVars, fetchVars, laterVars>>

\* asyncio.CancelledError at one of the sleeps: break
HourlyCancel ==
    /\ hourly_pc = "running"
    /\ hourly_pc' = "cancelled"
    /\ UNCHANGED <<hourly_now, hourly_attempts>>
    /\ UNCHANGED serviceVars
    /\ UNCHANGED <<subscribeVars, startupVars, fetchVars, laterVars>>

HourlyNext ==
    \/ \E outcome \in Outcomes, d \in 0..MaxDuration : HourlyTurn(outcome, d)
    \/ HourlyCancel

HourlySpec == HourlyInit /\ [][HourlyNext]_vars

\* C18 (as claimed): after a failed refresh the next refresh is attempted 60
\* seconds after the failure (which took at most MaxDuration), not a
\* further hour later.
C18AsClaimed ==
    \A j \in 1..(Len(hourly_attempts) - 1) :
        hourly_attempts[j].outcome = "error" =>
            hourly_attempts[j + 1].at <= hourly_attempts[j].at + MaxDuration + RETRY_SLEEP

(***************************************************************************)
(* Further properties of the receive loop.                                 *)
(***************************************************************************)

\* C21: for a bar written by closed candles only, in one flush or in several,
\* the row carries the open, high, low, close and volume of the closed
\* candle written last (the one received last: closed candles are written in
\* the order received, within a flush and across flushes).
C21LastClosedWins ==
    \A k \in Bars :
        LET done == {i \in EventsOf(k) : fate[i] = "committed"}
        IN  (done # {} /\ \A i \in done : received[i].is_closed) =>
                RowsOf(k) = {Row(received[MaxOf(done)])}

\* two closed candles of one bar with different values, written by the same
\* flush
C21Witness ==
    \E i, j \in Events :
        /\ i < j
        /\ Key(received[i]) = Key(received[j])
        /\ received[i].is_closed /\ received[j].is_closed
        /\ received[i].close # received[j].close
        /\ fate[i] = "committed" /\ fate[j] = "committed"
        /\ write_log = <<i, j>>

(***************************************************************************)
(* flush_batch taken alone: one call from any state of the buffer, the     *)
(* session and the two counters, the empty buffer included (the receive    *)
(* loop and the finally block only call it on a non-empty buffer).         *)
(***************************************************************************)
MaxFlushed == 1

\* the buffers of at most WS_BATCH_SIZE accepted klines
Buffers ==
    UNION {[1..n -> {parse_kline_message(m) : m \in KlineFrames \cup UnknownTimeframeFrames}]
               : n \in 0..WS_BATCH_SIZE}

\* a flush_batch without the early return that commits whatever was saved
flush_batch_always_commits(args) ==
    LET batch == [i \in 1..Len(args.batch_buffer) |-> [seq |-> i] @@ args.batch_buffer[i]]
        r == FlushBatch(args.db, {}, batch, args.fp)
    IN  [ret |-> <<r.saved, r.failed>>,
         executed |-> batch # <<>>,
         commits |-> 1,
         rollbacks |-> 0,
         total_batches_flushed |-> args.total_batches_flushed + 1,
         total_candles_batched |-> args.total_candles_batched + r.saved,
         batch_buffer |-> BufferAfterFlush(batch),
         db |-> r.sess]

\* flush_batch(db) as a whole.  Result: the returned pair, whether a statement
\* was sent to the database (the lookups of _batch_insert_candles included),
\* the calls of db.commit and db.rollback, and the fields afterwards.
\* saved_count > 0 exactly when a bulk statement succeeded (the log is not
\* empty); the counters move when db.commit() returned.
flush_batch(args) ==
    IF args.batch_buffer = <<>>
    THEN [ret |-> <<0, 0>>, executed |-> FALSE, commits |-> 0, rollbacks |-> 0,
          total_batches_flushed |-> args.total_batches_flushed,
          total_candles_batched |-> args.total_candles_batched,
          batch_buffer |-> args.batch_buffer,
          db |-> args.db]
    ELSE LET batch == [i \in 1..Len(args.batch_buffer) |->
                           [seq |-> i] @@ args.batch_buffer[i]]
             r == FlushBatch(args.db, {}, batch, args.fp)
             commit_called == r.log # <<>>
             commit_returned == commit_called /\ r.saved > 0
         IN  [ret |-> <<r.saved, r.failed>>,
              executed |-> TRUE,
              commits |-> IF commit_called THEN 1 ELSE 0,
              rollbacks |-> IF commit_called /\ ~commit_returned THEN 1 ELSE 0,
              total_batches_flushed |->
                  args.total_batches_flushed + (IF commit_returned THEN 1 ELSE 0),
              total_candles_batched |->
                  args.total_candles_batched + (IF commit_returned THEN r.saved ELSE 0),
              batch_buffer |-> BufferAfterFlush(batch),
              db |-> r.sess]

FlushCallInit ==
    /\ ServiceInit
    /\ EarlierIdle /\ RestIdle /\ SymbolIdle /\ ZigzagIdle /\ AlertIdle /\ FurtherIdle
    /\ flush_args \in [db : {"ok", "failed"}, batch_buffer : Buffers, fp : FailPoints,
                       total_batches_flushed : 0..MaxFlushed,
                       total_candles_batched : 0..MaxFlushed]
    /\ flush_ret = None

FlushCall ==
    /\ flush_ret = None
    /\ flush_ret' = flush_batch(flush_args)
    /\ UNCHANGED <<flush_args, serviceVars, earlierVars, restVars, symbolVars, zigzagVars,
                   alertVars, furtherVars>>

FlushCallSpec == FlushCallInit /\ [][FlushCall]_vars

\* C25: flush_batch called on an empty buffer returns (0, 0), sends no statement,
\* calls neither commit nor rollback, and leaves total_batches_flushed,
\* total_candles_batched, the buffer and the session as they were
C25EmptyFlushIsNoOp ==
    (flush_ret # None /\ flush_args.batch_buffer = <<>>) =>
        /\ flush_ret.ret = <<0, 0>>
        /\ ~flush_ret.executed
        /\ flush_ret.commits = 0
        /\ flush_ret.rollbacks = 0
        /\ flush_ret.total_batches_flushed = flush_args.total_batches_flushed
        /\ flush_ret.total_candles_batched = flush_args.total_candles_batched
        /\ flush_ret.batch_buffer = flush_args.batch_buffer
        /\ flush_ret.db = flush_args.db

\* flush_batch has returned from a call on an empty buffer, here with a session
\* whose transaction is aborted and counters that are not zero
C25Witness ==
    /\ flush_ret # None
    /\ flush_args.batch_buffer = <<>>
    /\ flush_args.db = "failed"
    /\ flush_args.total_batches_flushed > 0

(***************************************************************************)
(* REST backfill: BinanceIngestionService.ingest_all_symbols.  One task    *)
(* per symbol runs ingest_symbol; a task can be suspended only at the      *)
(* await of fetch_klines, the rest of it (parse_klines, SessionLocal,      *)
(* save_candles, publish_event, db.close) runs without an await.  The      *)
(* table starts with rows written earlier by the WebSocket path or by a    *)
(* backfill.  The exchange answers every call with the same klines.        *)
(***************************************************************************)
MaxRestSymbols == 2
MaxRuns == 2

RestSymbols == 1..MaxRestSymbols

\* a kline of the REST answer: open time in milliseconds and the price texts
Kline(open_time, p) == [open_time |-> open_time, o |-> p.o, h |-> p.h, l |-> p.l,
                        c |-> p.c, v |-> p.v]

\* the answers of /fapi/v1/klines: two bars with an unparseable kline between
\* them, or nothing parseable
KlinesAnswer(answer) ==
    IF answer = "ok"
    THEN << Kline(1000, CandleA),
            Kline(2000, [CandleA EXCEPT !.v = Malformed]),
            Kline(2000, CandleB) >>
    ELSE IF answer = "garbled" THEN << Kline(1000, [CandleA EXCEPT !.o = Malformed]) >>
    ELSE <<>>

\* parse_klines: the klines on which float() does not raise, as OHLCVCandle
parse_klines(klines, symbol, timeframe) ==
    LET good == SelectSeq(klines, LAMBDA k : Malformed \notin {k.o, k.h, k.l, k.c, k.v})
    IN  [i \in 1..Len(good) |->
            [symbol |-> symbol, timeframe |-> timeframe,
             timestamp |-> good[i].open_time \div 1000,
             open |-> good[i].o, high |-> good[i].h, low |-> good[i].l,
             close |-> good[i].c, volume |-> good[i].v]]

\* the insert as ON CONFLICT DO UPDATE
InsertOrOverwrite(rows, r) == {x \in rows : Key(x) # Key(r)} \cup {r}

\* INSERT ... ON CONFLICT (symbol_id, timeframe_id, timestamp) DO NOTHING
InsertOrIgnore(rows, r) ==
    IF \E x \in rows : Key(x) = Key(r) THEN rows ELSE rows \cup {r}

\* the statements of save_candles in list order: every row is written under
\* the ids resolved from the first candle
RECURSIVE SaveRows(_, _, _)
SaveRows(rows, candles, first) ==
    IF candles = <<>> THEN rows
    ELSE SaveRows(InsertOrIgnore(rows, [Row(Head(candles)) EXCEPT
                                           !.symbol = first.symbol,
                                           !.timeframe = first.timeframe]),
                  Tail(candles), first)

\* the places where the part of ingest_symbol after the fetch can fail
SaveFaults == {"none", "session", "ids", "statement", "commit", "publish", "close"}

\* save_candles(db, candles) on the committed table.  Result: the committed
\* table afterwards and whether the call raised.
save_candles(rows, candles, fault) ==
    IF candles = <<>> THEN [rows |-> rows, raised |-> FALSE]
    ELSE IF fault = "ids" \/ candles[1].timeframe \notin TimeframeTable
    THEN [rows |-> rows, raised |-> FALSE]
    ELSE IF fault \in {"statement", "commit"}
    THEN [rows |-> rows, raised |-> TRUE]
    ELSE [rows |-> SaveRows(rows, candles, candles[1]), raised |-> FALSE]

\* what an exception of class Exception raised inside a task does to
\* ingest_all_symbols when nothing catches it on the way
Propagated(exc) == "raised"

\* the same exception under the except clause of ingest_symbol (line 233) and
\* gather(return_exceptions=True) (line 241)
Isolated(exc) ==
    IF IsException(exc) THEN "logged" ELSE "collected"

\* rows written before the backfill: the bar opening at 1 of a symbol, with
\* prices other than the ones the exchange answers
Existing == {[symbol |-> k, timeframe |-> "1m", timestamp |-> 1,
              open |-> CandleB.o, high |-> CandleB.h, low |-> CandleB.l,
              close |-> CandleB.c, volume |-> CandleB.v] : k \in RestSymbols}

RestInit ==
    /\ ServiceInit
    /\ EarlierIdle /\ FlushIdle /\ SymbolIdle /\ ZigzagIdle /\ AlertIdle /\ FurtherIdle
    /\ rest_pc = "idle"
    /\ rest_task = [k \in RestSymbols |-> "none"]
    /\ rest_klines = [k \in RestSymbols |-> <<>>]
    /\ rest_fault = [k \in RestSymbols |-> "none"]
    /\ rest_table \in SUBSET Existing
    /\ rest_saves = [k \in RestSymbols |-> 0]
    /\ rest_runs = 0
    /\ rest_raised = FALSE

RestFrame ==
    UNCHANGED <<serviceVars, earlierVars, flushVars, symbolVars, zigzagVars, alertVars,
                furtherVars>>

\* ingest_all_symbols(symbols, timeframe): the tasks are created
IngestAllSymbols ==
    /\ rest_pc = "idle"
    /\ rest_runs < MaxRuns
    /\ rest_pc' = "gathering"
    /\ rest_task' = [k \in RestSymbols |-> "pending"]
    /\ rest_klines' = [k \in RestSymbols |-> <<>>]
    /\ rest_fault' = [k \in RestSymbols |-> "none"]
    /\ rest_raised' = FALSE
    /\ UNCHANGED <<rest_table, rest_saves, rest_runs>>
    /\ RestFrame

\* ingest_symbol up to the return of fetch_klines, which answers [] on a
\* status other than 200 and on an exception
FetchKlines(k) ==
    /\ rest_pc = "gathering"
    /\ rest_task[k] = "pending"
    /\ \E answer \in {"ok", "garbled", "status", "error"} :
           LET klines == KlinesAnswer(answer)
           IN  /\ rest_klines' = [rest_klines EXCEPT ![k] = klines]
               /\ rest_task' = [rest_task EXCEPT ![k] =
                                    IF klines = <<>> THEN "done" ELSE "fetched"]
               /\ rest_fault' = [rest_fault EXCEPT ![k] =
                                     IF klines = <<>> THEN "fetch" ELSE "none"]
    /\ UNCHANGED <<rest_pc, rest_table, rest_saves, rest_runs, rest_raised>>
    /\ RestFrame

\* the rest of ingest_symbol: parse_klines, SessionLocal, save_candles,
\* publish_event, db.close, and the except clause
ParseAndSave(k) ==
    /\ rest_pc = "gathering"
    /\ rest_task[k] = "fetched"
    /\ \E fault \in SaveFaults :
           LET candles == parse_klines(rest_klines[k], k, "1m")
               r == save_candles(rest_table, candles, fault)
               saved == candles # <<>> /\ fault \notin {"session", "ids", "statement", "commit"}
               exc == IF candles # <<>> /\ fault \in (SaveFaults \ {"none", "ids"})
                      THEN "OSError" ELSE "none"
           IN  /\ rest_table' = IF candles # <<>> /\ fault # "session" THEN r.rows
                                ELSE rest_table
               /\ rest_saves' = [rest_saves EXCEPT ![k] = @ + (IF saved THEN 1 ELSE 0)]
               /\ rest_fault' = [rest_fault EXCEPT ![k] =
                                     IF candles = <<>> THEN "parse" ELSE fault]
               /\ rest_raised' = (rest_raised \/ (exc # "none" /\ Isolated(exc) = "raised"))
    /\ rest_task' = [rest_task EXCEPT ![k] = "done"]
    /\ UNCHANGED <<rest_pc, rest_klines, rest_runs>>
    /\ RestFrame

\* gather has every result: ingest_all_symbols counts them and returns
Gathered ==
    /\ rest_pc = "gathering"
    /\ \A k \in RestSymbols : rest_task[k] = "done"
    /\ rest_pc' = "idle"
    /\ rest_runs' = rest_runs + 1
    /\ UNCHANGED <<rest_task, rest_klines, rest_fault, rest_table, rest_saves, rest_raised>>
    /\ RestFrame

RestNext ==
    \/ IngestAllSymbols
    \/ \E k \in RestSymbols : FetchKlines(k)
    \/ \E k \in RestSymbols : ParseAndSave(k)
    \/ Gathered

RestSpec == RestInit /\ [][RestNext]_vars

\* the candles ingest_symbol hands to save_candles for symbol k
CandlesOf(k) == parse_klines(rest_klines[k], k, "1m")

\* C22: save_candles never changes or removes a row that exists already, and
\* saving the same candles again leaves the table as the first save left it
C22InsertIfAbsent ==
    [][ /\ rest_table \subseteq rest_table'
        /\ \A k \in RestSymbols :
               rest_saves'[k] = rest_saves[k] + 1 =>
                   /\ save_candles(rest_table', CandlesOf(k), "none").rows = rest_table'
                   /\ rest_saves[k] > 0 => rest_table' = rest_table ]_vars

\* symbol 1 was backfilled twice over a row of its first bar written earlier
\* with other prices, and that row is still there beside the backfilled bar
C22Witness ==
    /\ rest_saves[1] = 2
    /\ \E r \in rest_table \cap Existing : r.symbol = 1
    /\ \E r \in rest_table : r.symbol = 1 /\ r.timestamp = 2

\* C23: no exception leaves ingest_all_symbols, and every symbol whose own
\* fetch, parse and save did not fail has its candles in the table, whatever
\* happened to the other symbols of the call
C23ErrorIsolation ==
    /\ ~rest_raised
    /\ \A k \in RestSymbols :
           (rest_task[k] = "done" /\ rest_fault[k] = "none") =>
               /\ CandlesOf(k) # <<>>
               /\ \A i \in 1..Len(CandlesOf(k)) :
                      \E r \in rest_table : Key(r) = Key(CandlesOf(k)[i])

\* ingest_all_symbols has returned from a call in which the save of symbol 1
\* raised and symbol 2 was ingested
C23Witness ==
    /\ rest_pc = "idle"
    /\ rest_runs = 1
    /\ rest_fault[1] = "commit"
    /\ rest_fault[2] = "none"
    /\ rest_saves = <<0, 1>>

(***************************************************************************)
(* Table symbols: get_or_create_symbol_record called any number of times   *)
(* through one session, whose caller commits or rolls back.  The calls     *)
(* follow one another: between the SELECT and the INSERT of a call no      *)
(* other connection writes the table.  image_path is "NULL" for None / SQL *)
(* NULL, "" for the empty string, or a path.                               *)
(***************************************************************************)
MaxSymbolRows == 2

SymbolNames == 1..MaxSymbolRows

ImagePaths == {"NULL", "", "a.png", "b.png"}

\* an UPDATE that is run whatever image_path is
Always(image_path) == TRUE

\* "if image_path:" (line 617)
Truthy(image_path) == image_path \notin {"NULL", ""}

\* UPDATE symbols SET image_path = :image_path
\* WHERE symbol_id = :symbol_id AND (image_path IS NULL OR image_path != :image_path)
UpdateImagePath(current, image_path) ==
    IF current = "NULL" \/ (image_path # "NULL" /\ current # image_path)
    THEN image_path ELSE current

\* INSERT INTO symbols ... ON CONFLICT (symbol_name) DO UPDATE SET
\* image_path = COALESCE(EXCLUDED.image_path, symbols.image_path)
InsertSymbol(current, image_path) ==
    IF current = "absent" THEN image_path
    ELSE IF image_path # "NULL" THEN image_path ELSE current

\* get_or_create_symbol_record(db, symbol, image_path) on the row the session
\* sees: the row afterwards
get_or_create_symbol_record(current, image_path) ==
    IF current # "absent"
    THEN IF Truthy(image_path) THEN UpdateImagePath(current, image_path) ELSE current
    ELSE InsertSymbol(current, image_path)

SymbolInit ==
    /\ ServiceInit
    /\ EarlierIdle /\ FlushIdle /\ RestIdle /\ ZigzagIdle /\ AlertIdle /\ FurtherIdle
    /\ stored_image = [k \in SymbolNames |-> "absent"]
    /\ session_image = [k \in SymbolNames |-> "absent"]
    /\ symbol_db = "ok"
    /\ symbol_op = [op |-> "none", symbol |-> 0, image_path |-> "NULL"]

SymbolFrame ==
    UNCHANGED <<serviceVars, earlierVars, flushVars, restVars, zigzagVars, alertVars,
                furtherVars>>

\* one call; a statement that raises aborts the transaction, the except clause
\* logs and returns None
GetOrCreateSymbolRecord(k, image_path, raises) ==
    /\ IF raises \/ symbol_db = "failed"
       THEN symbol_db' = "failed" /\ UNCHANGED session_image
       ELSE /\ session_image' = [session_image EXCEPT ![k] =
                                     get_or_create_symbol_record(@, image_path)]
            /\ UNCHANGED symbol_db
    /\ symbol_op' = [op |-> "call", symbol |-> k, image_path |-> image_path]
    /\ UNCHANGED stored_image
    /\ SymbolFrame

\* the caller's db.commit(): on an aborted transaction it ends it as a rollback
SymbolCommit ==
    /\ IF symbol_db = "failed"
       THEN session_image' = stored_image /\ UNCHANGED stored_image
       ELSE stored_image' = session_image /\ UNCHANGED session_image
    /\ symbol_db' = "ok"
    /\ symbol_op' = [op |-> "commit", symbol |-> 0, image_path |-> "NULL"]
    /\ SymbolFrame

\* the caller's db.rollback(), or db.close() without a commit
SymbolRollback ==
    /\ session_image' = stored_image
    /\ symbol_db' = "ok"
    /\ symbol_op' = [op |-> "rollback", symbol |-> 0, image_path |-> "NULL"]
    /\ UNCHANGED stored_image
    /\ SymbolFrame

SymbolNext ==
    \/ \E k \in SymbolNames, image_path \in ImagePaths, raises \in BOOLEAN :
           GetOrCreateSymbolRecord(k, image_path, raises)
    \/ SymbolCommit
    \/ SymbolRollback

SymbolSpec == SymbolInit /\ [][SymbolNext]_vars

NonEmpty(image) == image \notin {"absent", "NULL", ""}

\* C24: the committed image_path of a symbol never goes from a non-empty value
\* to empty, NULL or no row, and no call of get_or_create_symbol_record makes
\* it do so inside the transaction either
C24NeverCleared ==
    [][ \A k \in SymbolNames :
            /\ NonEmpty(stored_image[k]) => NonEmpty(stored_image'[k])
            /\ (symbol_op'.op = "call" /\ NonEmpty(session_image[k])) =>
                   NonEmpty(session_image'[k]) ]_vars

\* a call with the empty string has just run for a symbol whose committed
\* image_path is a path, in a transaction that had changed it to another path
C24Witness ==
    /\ stored_image[1] = "a.png"
    /\ session_image[1] = "b.png"
    /\ symbol_op = [op |-> "call", symbol |-> 1, image_path |-> ""]
    /\ symbol_db = "ok"

(***************************************************************************)
(* Swing detector: get_zigzag_points (strategy-engine/indicators/          *)
(* zigzag.py).  A bar is [high, low]; its unix time is its position in df. *)
(* A point is <<datetime, price>>, a swing [type, dt, price].  The         *)
(* direction array of calculate_zigzag (lines 113-193) is not derived from *)
(* the bars here: every array of 1 and -1 that starts with depth + 1 ones  *)
(* is considered, which includes the arrays the code computes.  A rate is  *)
(* a fraction [num, den] and is compared without rounding.                 *)
(***************************************************************************)
Depth == 2
MaxBars == 6
MaxSwings == 4

BACKSTEP == 2

Abs(x) == IF x < 0 THEN 0 - x ELSE x

BarShapes == {[high |-> 3, low |-> 2], [high |-> 4, low |-> 3], [high |-> 2, low |-> 1]}

\* the z and z2 chart points after one more bar (lines 238-264)
ZigzagStep(st, bar, dt, dir, prev_dir) ==
    LET s1 == IF dir # prev_dir THEN [z |-> st.z, z2 |-> st.z] ELSE st
    IN  IF dir > 0
        THEN LET a == IF bar.high > s1.z2[2]
                      THEN [z |-> <<dt, bar.low>>, z2 |-> <<dt, bar.high>>] ELSE s1
             IN  IF bar.low < a.z[2] THEN [a EXCEPT !.z = <<dt, bar.low>>] ELSE a
        ELSE LET a == IF bar.low < s1.z2[2]
                      THEN [z |-> <<dt, bar.high>>, z2 |-> <<dt, bar.low>>] ELSE s1
             IN  IF bar.high > a.z[2] THEN [a EXCEPT !.z = <<dt, bar.high>>] ELSE a

\* calculate_zigzag: the chart points after bar i and the list z2 up to bar i
RECURSIVE ZigzagUpTo(_, _, _)
ZigzagUpTo(bars, direction, i) ==
    IF i <= Depth + 1
    THEN [st |-> [z |-> <<1, bars[1].low>>, z2 |-> <<1, bars[1].high>>],
          z2 |-> [k \in 1..i |-> <<1, bars[1].high>>]]
    ELSE LET before == ZigzagUpTo(bars, direction, i - 1)
             st == ZigzagStep(before.st, bars[i], i, direction[i], direction[i - 1])
         IN  [st |-> st, z2 |-> Append(before.z2, st.z2)]

Swing(type, point) == [type |-> type, dt |-> point[1], price |-> point[2]]

\* step 1: the z2 point before every direction change, then the last z2 point
\* unless it repeats the type of the last swing (lines 361-388)
CollectSwings(direction, z2) ==
    LET TypeOf(dir) == IF dir > 0 THEN "high" ELSE "low"
        changes == SelectSeq([i \in 1..Len(z2) |-> i],
                             LAMBDA i : i > 1 /\ direction[i] # direction[i - 1])
        confirmed == [k \in 1..Len(changes) |->
                         Swing(TypeOf(direction[changes[k] - 1]), z2[changes[k] - 1])]
        last == Swing(TypeOf(direction[Len(z2)]), z2[Len(z2)])
    IN  IF confirmed = <<>> \/ confirmed[Len(confirmed)].type # last.type
        THEN Append(confirmed, last) ELSE confirmed

\* price_rate > swing_pruning_rate (lines 400-407)
RateAbove(prev_price, curr_price, rate) ==
    IF prev_price > 0
    THEN Abs(curr_price - prev_price) * rate.den > rate.num * prev_price
    ELSE 0 > rate.num

\* the filter that compares a swing with the latest swing kept
RECURSIVE KeepFromKept(_, _, _)
KeepFromKept(kept, rest, rate) ==
    IF rest = <<>> THEN kept
    ELSE KeepFromKept(IF RateAbove(kept[Len(kept)].price, Head(rest).price, rate)
                      THEN Append(kept, Head(rest)) ELSE kept,
                      Tail(rest), rate)

ReferenceFilter(swings, rate) == KeepFromKept(<<swings[1]>>, Tail(swings), rate)

\* step 2: the first swing, then every swing whose price differs from the price
\* of all_swings[i - 1] by more than the rate (lines 393-408)
RateFilter(swings, rate) ==
    LET kept == SelectSeq([i \in 1..Len(swings) |-> i],
                          LAMBDA i : i = 1 \/ RateAbove(swings[i - 1].price,
                                                        swings[i].price, rate))
    IN  [k \in 1..Len(kept) |-> swings[kept[k]]]

\* the first most extreme swing of f[from..to], all of one type
Extreme(f, from, to) ==
    LET better(a, b) == IF f[from].type = "high" THEN f[a].price > f[b].price
                        ELSE f[a].price < f[b].price
        j == CHOOSE a \in from..to :
                 /\ \A b \in from..to : ~better(b, a)
                 /\ \A b \in from..(a - 1) : better(a, b)
    IN  f[j]

\* step 3: from the second swing on, the most extreme swing of every run of one
\* type (lines 419-468)
RECURSIVE Collapse(_, _, _)
Collapse(f, i, final) ==
    IF i > Len(f) THEN final
    ELSE LET opposite == {j \in (i + 1)..Len(f) : f[j].type # f[i].type}
         IN  IF opposite = {}
             THEN Append(final, Extreme(f, i, Len(f)))
             ELSE LET next == CHOOSE j \in opposite : \A o \in opposite : j <= o
                  IN  Collapse(f, next, Append(final, Extreme(f, i, next - 1)))

\* the swings of step 3 returned as they are
NoAlternation(final) == final

\* step 4: of consecutive swings of one type the more extreme one is kept, the
\* earlier one when they are equal (lines 471-485)
RECURSIVE StrictAlternation(_)
StrictAlternation(final) ==
    IF Len(final) <= 1 THEN final
    ELSE LET before == StrictAlternation(SubSeq(final, 1, Len(final) - 1))
             prev == before[Len(before)]
             curr == final[Len(final)]
         IN  IF curr.type # prev.type THEN Append(before, curr)
             ELSE IF (curr.type = "high" /\ curr.price > prev.price)
                      \/ (curr.type = "low" /\ curr.price < prev.price)
             THEN [before EXCEPT ![Len(before)] = curr]
             ELSE before

\* steps 2 to 5 of get_zigzag_points on a non-empty all_swings
PruneSwings(swings, rate) ==
    LET filtered == RateFilter(swings, rate)
        final == Collapse(filtered, 2, <<filtered[1]>>)
        strict == StrictAlternation(final)
        Points(type) == LET of == SelectSeq(strict, LAMBDA x : x.type = type)
                        IN  [k \in 1..Len(of) |-> <<of[k].dt, of[k].price>>]
    IN  [filtered_swings |-> filtered,
         swing_highs |-> Points("high"), swing_lows |-> Points("low")]

\* the pruning rates 0, 25% and 50%
Rates == {[num |-> 0, den |-> 1], [num |-> 1, den |-> 4], [num |-> 1, den |-> 2]}

ZigzagFrame ==
    UNCHANGED <<serviceVars, earlierVars, flushVars, restVars, symbolVars, alertVars,
                furtherVars>>

\* a time-ordered df of at least depth + backstep + 1 bars
ZigzagInit ==
    /\ ServiceInit
    /\ EarlierIdle /\ FlushIdle /\ RestIdle /\ SymbolIdle /\ AlertIdle /\ FurtherIdle
    /\ \E n \in (Depth + BACKSTEP + 1)..MaxBars :
           zigzag_df \in [bars : [1..n -> BarShapes],
                          direction : {d \in [1..n -> {1, 0 - 1}] :
                                           \A i \in 1..(Depth + 1) : d[i] = 1}]
    /\ all_swings = None
    /\ swing_pruning_rate \in Rates
    /\ zigzag_ret = None

\* get_zigzag_points(df, depth, deviation, backstep, mintick, swing_pruning_rate)
GetZigzagPoints ==
    /\ zigzag_ret = None
    /\ LET n == Len(zigzag_df.bars)
           swings == CollectSwings(zigzag_df.direction,
                                   ZigzagUpTo(zigzag_df.bars, zigzag_df.direction, n).z2)
       IN  /\ all_swings' = swings
           /\ zigzag_ret' = PruneSwings(swings, swing_pruning_rate)
    /\ UNCHANGED <<zigzag_df, swing_pruning_rate>>
    /\ ZigzagFrame

ZigzagSpec == ZigzagInit /\ [][GetZigzagPoints]_vars

SwingPrices == {8, 9, 10, 11}

AlternatingSwings ==
    UNION {{[k \in 1..n |->
                [type |-> IF (k % 2 = 1) = first_high THEN "high" ELSE "low",
                 dt |-> k, price |-> prices[k]]] :
                prices \in [1..n -> SwingPrices], first_high \in BOOLEAN}
               : n \in 1..MaxSwings}

RateFilterInit ==
    /\ ServiceInit
    /\ EarlierIdle /\ FlushIdle /\ RestIdle /\ SymbolIdle /\ AlertIdle /\ FurtherIdle
    /\ zigzag_df = None
    /\ all_swings \in AlternatingSwings
    /\ swing_pruning_rate \in Rates
    /\ zigzag_ret = None

\* get_zigzag_points from line 390 on
FilterSwings ==
    /\ zigzag_ret = None
    /\ zigzag_ret' = PruneSwings(all_swings, swing_pruning_rate)
    /\ UNCHANGED <<zigzag_df, all_swings, swing_pruning_rate>>
    /\ ZigzagFrame

RateFilterSpec == RateFilterInit /\ [][FilterSwings]_vars

\* C29: the rate filter keeps the first swing and then a swing exactly when its
\* price differs from the price of the previously kept swing by more than the
\* rate, relative to that kept swing
C29AsClaimed ==
    zigzag_ret # None =>
        zigzag_ret.filtered_swings = ReferenceFilter(all_swings, swing_pruning_rate)

(***************************************************************************)
(* Fibonacci levels and alerts: calculate_fibonacci_levels                 *)
(* (indicators/fibonacci.py) followed by AlertGenerator.generate_alerts    *)
(* (alerts/generator.py) on the levels it produced, every level taken as   *)
(* confirmed.  Swing prices are whole numbers; fib factors are given in    *)
(* thousandths and levels in thousandths of a price unit, so the Decimal   *)
(* arithmetic of the code is exact here (to_decimal goes through the       *)
(* string of the float, float() of the result is monotonic).               *)
(***************************************************************************)
MaxSwingPoints == 3

LevelPrices == {100, 101, 200}

\* StrategyConfig of the spec's bull scenario, with the two entry factors also
\* below 0 and above 1; get_pruning_score answers 3%
Configs ==
    [bullish_fib_level_lower : {0 - 500, 618, 1618},
     bearish_fib_level : {0 - 500, 618, 1618},
     bullish_sl_fib_level : {0}, bearish_sl_fib_level : {0},
     tp1_fib_level : {786}, tp2_fib_level : {1000}, tp3_fib_level : {1272},
     pruning_score : {[num |-> 3, den |-> 100]}]

\* swing lists as get_zigzag_points returns them: types alternate, time ordered
SwingLists ==
    UNION {{[k \in 1..n |->
                [type |-> IF (k % 2 = 1) = first_high THEN "high" ELSE "low",
                 dt |-> k, price |-> prices[k]]] :
                prices \in [1..n -> LevelPrices], first_high \in BOOLEAN}
               : n \in 1..MaxSwingPoints}

\* fib_bull_lower_decimal (lines 122-134)
BullLevel(low_price, rh_price, factor) ==
    Max(1000 * low_price, 1000 * rh_price - (rh_price - low_price) * factor)

\* fib_bear_decimal (lines 162-174)
BearLevel(low_price, lh_price, factor) ==
    Max(1000 * low_price,
        Min(1000 * lh_price, 1000 * low_price + (lh_price - low_price) * factor))

\* list.sort(key=lambda x: x[0]): by datetime, equal datetimes in list order
RECURSIVE SortByTime(_)
SortByTime(points) ==
    IF points = <<>> THEN <<>>
    ELSE LET first == Head(points)
             rest == SortByTime(Tail(points))
         IN  SelectSeq(rest, LAMBDA p : p[1] < first[1]) \o <<first>>
                 \o SelectSeq(rest, LAMBDA p : p[1] >= first[1])

\* valid_highs (lines 47-67): the highs with a positive price, sorted
ValidHighs(swing_highs) == SortByTime(SelectSeq(swing_highs, LAMBDA h : h[2] > 0))

\* the latest of the highs after low_dt
LastLater(valid_highs, low_dt) ==
    LET later == SelectSeq(valid_highs, LAMBDA h : h[1] > low_dt)
    IN  IF later = <<>> THEN <<>> ELSE <<later[Len(later)]>>

\* right_high (lines 95-100): the first high of the sorted list after low_dt,
\* as a list of at most one point
FirstLater(valid_highs, low_dt) ==
    LET later == SelectSeq(valid_highs, LAMBDA h : h[1] > low_dt)
    IN  IF later = <<>> THEN <<>> ELSE <<later[1]>>

\* left_high (lines 104-111): the last high of the sorted list before low_dt
LastEarlier(valid_highs, low_dt) ==
    LET earlier == SelectSeq(valid_highs, LAMBDA h : h[1] < low_dt)
    IN  IF earlier = <<>> THEN <<>> ELSE <<earlier[Len(earlier)]>>

\* the FibResults calculate_fibonacci_levels appends for one swing low
LevelsOfLow(valid_highs, low, config) ==
    LET right == FirstLater(valid_highs, low[1])
        left == LastEarlier(valid_highs, low[1])
        bull == IF right # <<>> /\ right[1][2] > low[2]
                THEN << [swing_low |-> low, swing_high |-> right[1],
                         fib_level |-> BullLevel(low[2], right[1][2],
                                                 config.bullish_fib_level_lower),
                         fib_type |-> "bull"] >>
                ELSE <<>>
        bear == IF left # <<>> /\ left[Len(left)][2] > low[2]
                THEN << [swing_low |-> low, swing_high |-> left[Len(left)],
                         fib_level |-> BearLevel(low[2], left[Len(left)][2],
                                                 config.bearish_fib_level),
                         fib_type |-> "bear"] >>
                ELSE <<>>
    IN  bull \o bear

\* the loop over swing_lows (lines 70-191): a low without a positive price is
\* skipped
RECURSIVE LevelsOfLows(_, _, _)
LevelsOfLows(valid_highs, swing_lows, config) ==
    IF swing_lows = <<>> THEN <<>>
    ELSE (IF Head(swing_lows)[2] > 0
          THEN LevelsOfLow(valid_highs, Head(swing_lows), config) ELSE <<>>)
             \o LevelsOfLows(valid_highs, Tail(swing_lows), config)

\* calculate_fibonacci_levels(swing_highs, swing_lows, timeframe, config)
calculate_fibonacci_levels(swing_highs, swing_lows, config) ==
    LevelsOfLows(ValidHighs(swing_highs), swing_lows, config)

\* the alert generate_alerts appends for one level (lines 102-152)
AlertOf(level, config) ==
    LET low == level.swing_low[2]
        high == level.swing_high[2]
        price_diff == high - low
        Down(factor) == 1000 * high - price_diff * factor
        Up(factor) == 1000 * low + price_diff * factor
    IN  IF level.fib_type = "bull"
        THEN [trend_type |-> "long", entry_level |-> level.fib_level,
              sl |-> Down(config.bullish_sl_fib_level),
              tp1 |-> Down(config.tp1_fib_level), tp2 |-> Down(config.tp2_fib_level),
              tp3 |-> Down(config.tp3_fib_level),
              swing_low_price |-> low, swing_high_price |-> high]
        ELSE [trend_type |-> "short", entry_level |-> level.fib_level,
              sl |-> Up(config.bearish_sl_fib_level),
              tp1 |-> Up(config.tp1_fib_level), tp2 |-> Up(config.tp2_fib_level),
              tp3 |-> Up(config.tp3_fib_level),
              swing_low_price |-> low, swing_high_price |-> high]

\* generate_alerts(asset_symbol, confirmed_levels): the levels with
\* swing_high price > swing_low price > 0; swing_pruning_rate_decimal is
\* computed (lines 52-53) and not read again
generate_alerts(confirmed_levels, config) ==
    LET valid == SelectSeq(confirmed_levels,
                           LAMBDA level : level.swing_low[2] > 0
                                          /\ level.swing_high[2] > level.swing_low[2])
    IN  [k \in 1..Len(valid) |-> AlertOf(valid[k], config)]

AlertInit ==
    /\ ServiceInit
    /\ EarlierIdle /\ FlushIdle /\ RestIdle /\ SymbolIdle /\ ZigzagIdle /\ FurtherIdle
    /\ \E swings \in SwingLists, config \in Configs :
           LET Points(type) == LET of == SelectSeq(swings, LAMBDA x : x.type = type)
                               IN  [k \in 1..Len(of) |-> <<of[k].dt, of[k].price>>]
           IN  fib_args = [swing_highs |-> Points("high"), swing_lows |-> Points("low"),
                           config |-> config]
    /\ fib_pc = "args"
    /\ fib_levels = <<>>
    /\ alerts = <<>>

CalculateFibonacciLevels ==
    /\ fib_pc = "args"
    /\ fib_pc' = "levels"
    /\ fib_levels' = calculate_fibonacci_levels(fib_args.swing_highs, fib_args.swing_lows,
                                                fib_args.config)
    /\ UNCHANGED <<fib_args, alerts, serviceVars, earlierVars, flushVars, restVars,
                   symbolVars, zigzagVars, furtherVars>>

GenerateAlerts ==
    /\ fib_pc = "levels"
    /\ fib_pc' = "alerts"
    /\ alerts' = generate_alerts(fib_levels, fib_args.config)
    /\ UNCHANGED <<fib_args, fib_levels, serviceVars, earlierVars, flushVars, restVars,
                   symbolVars, zigzagVars, furtherVars>>

AlertNext == CalculateFibonacciLevels \/ GenerateAlerts

AlertSpec == AlertInit /\ [][AlertNext]_vars

\* C27: an alert is emitted only for a swing whose relative range
\* (p_h - p_l) / p_l is strictly greater than the swing pruning rate of the asset
C27AsClaimed ==
    fib_pc = "alerts" =>
        \A k \in 1..Len(alerts) :
            (alerts[k].swing_high_price - alerts[k].swing_low_price)
                    * fib_args.config.pruning_score.den
                > fib_args.config.pruning_score.num * alerts[k].swing_low_price

\* C28: with sl fib level < entry fib level < tp1 <= tp2 <= tp3 fib levels, every
\* long alert has sl < entry_level < tp1 <= tp2 <= tp3 and every short alert has
\* sl > entry_level > tp1 >= tp2 >= tp3
C28AsClaimed ==
    fib_pc = "alerts" =>
        \A k \in 1..Len(alerts) :
            LET a == alerts[k]
                c == fib_args.config
                long == a.trend_type = "long"
                sl_fib == IF long THEN c.bullish_sl_fib_level ELSE c.bearish_sl_fib_level
                entry_fib == IF long THEN c.bullish_fib_level_lower ELSE c.bearish_fib_level
            IN  (sl_fib < entry_fib /\ entry_fib < c.tp1_fib_level
                     /\ c.tp1_fib_level <= c.tp2_fib_level
                     /\ c.tp2_fib_level <= c.tp3_fib_level) =>
                    IF long
                    THEN a.sl < a.entry_level /\ a.entry_level < a.tp1
                             /\ a.tp1 <= a.tp2 /\ a.tp2 <= a.tp3
                    ELSE a.sl > a.entry_level /\ a.entry_level > a.tp1
                             /\ a.tp1 >= a.tp2 /\ a.tp2 >= a.tp3

\* C30: every FibResult has swing_low price <= fib_level <= swing_high price
C30AsClaimed ==
    fib_pc # "args" =>
        \A k \in 1..Len(fib_levels) :
            /\ 1000 * fib_levels[k].swing_low[2] <= fib_levels[k].fib_level
            /\ fib_levels[k].fib_level <= 1000 * fib_levels[k].swing_high[2]

(***************************************************************************)
(* The batch buffer across messages and connection losses.                 *)
(***************************************************************************)
\* C37: between two message-processing steps of listen_and_process the batch
\* buffer holds fewer than WS_BATCH_SIZE candles
C37BufferBelowBatchSize == Len(batch_buffer) < WS_BATCH_SIZE

\* a batch of WS_BATCH_SIZE candles has just been flushed in one statement
\* because the buffer was full, and the loop goes on receiving
C37Witness ==
    /\ pc = "listen"
    /\ Len(write_log) = WS_BATCH_SIZE
    /\ batch_buffer = <<>>
    /\ \A i \in DOMAIN fate : fate[i] = "committed"

\* C39: the step that handles a connection loss leaves the batch buffer empty
\* and no candle pending, and a candle that is in no buffer takes part in no
\* later flush: its fate and its number of flushes stay as they are
C39NothingCarriedOver ==
    [][ /\ (is_connected /\ ~is_connected') =>
               /\ batch_buffer' = <<>>
               /\ \A i \in DOMAIN fate' : fate'[i] # "buffered"
        /\ \A i \in DOMAIN fate :
               i \notin SeqNumbers(batch_buffer) =>
                   fate'[i] = fate[i] /\ attempts'[i] = attempts[i] ]_vars

\* a candle that was buffered when the connection was lost failed in the flush
\* of that moment; the service has reconnected and committed a later candle
C39Witness ==
    /\ is_connected
    /\ fails = 0
    /\ Len(fate) = 2
    /\ fate[1] = "failed"
    /\ attempts[1] = 1
    /\ fate[2] = "committed"
    /\ \E r \in ohlcv_candles : Key(r) = Key(received[2])
    /\ \A r \in ohlcv_candles : Key(r) # Key(received[1]) \/ Key(received[1]) = Key(received[2])

(***************************************************************************)
(* The reconnect delay under every cap.  The service of the receive loop   *)
(* receiving frames of which no row is stored, started with                *)
(* max_reconnect_delay 0, 1, 2 or WS_MAX_RECONNECT_DELAY: __init__ copies  *)
(* the configured value as it is                                           *)
(* (line 671).  start's own sleep and doubling (lines 1237-1240) run only  *)
(* when an Exception leaves connect_and_subscribe or listen_and_process,   *)
(* which catch every Exception themselves.                                 *)
(***************************************************************************)
ReconnectCaps == {0, 1, 2, WS_MAX_RECONNECT_DELAY}

DelayInit ==
    /\ ServiceInit
    /\ EarlierIdle
    /\ FlushIdle /\ RestIdle /\ SymbolIdle /\ ZigzagIdle /\ AlertIdle
    /\ CalcIdle /\ SwingIdle
    /\ max_reconnect_delay \in ReconnectCaps

DelayNext ==
    \/ \E ok \in BOOLEAN : StartConnect(ok)
    \/ \E ok, test_ok \in BOOLEAN : Reconnect(ok, test_ok)
    \/ \E test_ok \in BOOLEAN : CreateSession(test_ok)
    \/ \E m \in OtherFrames \cup UnknownTimeframeFrames, dt \in Delays : RecvFrame(m, dt)
    \/ \E exc \in RecvExceptions, ping_ok \in BOOLEAN : RecvTimeout(exc, ping_ok)
    \/ \E exc \in RecvExceptions : ConnectionLost(exc)
    \/ \E exc \in RecvExceptions : RecvError(exc)
    \/ \E exc \in RecvExceptions \cup Cancellations : LeaveLoop(exc)

DelaySpec == DelayInit /\ [][DelayNext]_vars

\* C38: in every reachable state 1 <= reconnect_delay <= max(1,
\* WS_MAX_RECONNECT_DELAY), and reconnect_delay is 1 right after every
\* successful connect
C38AsClaimed ==
    /\ [](1 <= reconnect_delay /\ reconnect_delay <= Max(1, max_reconnect_delay))
    /\ [][(~is_connected /\ is_connected') => reconnect_delay' = 1]_vars

(***************************************************************************)
(* calculate_fibonacci_levels on lists in any order: up to MaxHighs highs  *)
(* and one or two different lows, prices 0 included.                       *)
(***************************************************************************)
MaxHighs == 2

HighPoints == {<<dt, price>> : dt \in {1, 2, 3}, price \in {0, 150, 200}}

LowPoints == {<<dt, price>> : dt \in {1, 2}, price \in {0, 100}} \cup {<<2, 180>>}

PairingInit ==
    /\ ServiceInit
    /\ EarlierIdle /\ FlushIdle /\ RestIdle /\ SymbolIdle /\ ZigzagIdle /\ FurtherIdle
    /\ \E n \in 0..MaxHighs :
       \E swing_highs \in [1..n -> HighPoints] :
       \E swing_lows \in {<<p>> : p \in LowPoints}
                            \cup {pq \in LowPoints \X LowPoints : pq[1] # pq[2]} :
       \E config \in {c \in Configs : c.bullish_fib_level_lower = 618
                                        /\ c.bearish_fib_level = 618} :
           fib_args = [swing_highs |-> swing_highs, swing_lows |-> swing_lows,
                       config |-> config]
    /\ fib_pc = "args"
    /\ fib_levels = <<>>
    /\ alerts = <<>>

PairingSpec == PairingInit /\ [][AlertNext]_vars

C40AsClaimed ==
    zigzag_ret # None =>
        LET out == {zigzag_ret.swing_highs[k] : k \in DOMAIN zigzag_ret.swing_highs}
                       \cup {zigzag_ret.swing_lows[k] : k \in DOMAIN zigzag_ret.swing_lows}
        IN  \A a, b \in out :
                (a[1] < b[1] /\ ~\E c \in out : a[1] < c[1] /\ c[1] < b[1]) =>
                    RateAbove(a[2], b[2], swing_pruning_rate)

(***************************************************************************)
(* calculate_zigzag on the bars themselves: the arrays hr and lr, the      *)
(* direction array and the z2 list, and get_zigzag_points on its result.   *)
(* Positions are the code's: bar j of the code is bars[j + 1].  The        *)
(* threshold deviation * mintick is given in halves (tick2), so that       *)
(* whole-number prices are compared with it exactly.                       *)
(***************************************************************************)
MaxSeries == 8

Ticks2 == {1, 3}

HighAt(bars, j) == bars[j + 1].high

LowAt(bars, j) == bars[j + 1].low

\* a check that lets every non-empty df through
AnyBars(n) == n > 0

\* len(df) >= depth + backstep + 1 (lines 48, 88)
EnoughBars(n) == n >= Depth + BACKSTEP + 1

\* hr[i] (lines 127-152): bars since the high condition was false, seen from
\* bar i - 1 over at most depth + 1 bars; 0 when it was never false
hr_value(bars, i, tick2) ==
    LET prev_idx == i - 1
        window == Max(0, prev_idx - Depth + 1)..prev_idx
        highest == CHOOSE a \in window :
                       /\ \A b \in window : HighAt(bars, b) <= HighAt(bars, a)
                       /\ \A b \in window : b < a => HighAt(bars, b) < HighAt(bars, a)
        highestbars == highest - prev_idx
        false_at == {j \in Max(0, prev_idx - Depth)..prev_idx :
                        /\ j + highestbars >= 0
                        /\ j + highestbars < Len(bars)
                        /\ ~(2 * (HighAt(bars, j + highestbars) - HighAt(bars, j)) > tick2)}
    IN  IF false_at = {} THEN 0 ELSE prev_idx - MaxOf(false_at)

\* lr[i] (lines 154-177)
lr_value(bars, i, tick2) ==
    LET prev_idx == i - 1
        window == Max(0, prev_idx - Depth + 1)..prev_idx
        lowest == CHOOSE a \in window :
                      /\ \A b \in window : LowAt(bars, a) <= LowAt(bars, b)
                      /\ \A b \in window : b < a => LowAt(bars, a) < LowAt(bars, b)
        lowestbars == lowest - prev_idx
        false_at == {j \in Max(0, prev_idx - Depth)..prev_idx :
                        /\ j + lowestbars >= 0
                        /\ j + lowestbars < Len(bars)
                        /\ ~(2 * (LowAt(bars, j) - LowAt(bars, j + lowestbars)) > tick2)}
    IN  IF false_at = {} THEN 0 ELSE prev_idx - MaxOf(false_at)

\* a loop that looks back over fewer than backstep bars
ShortWindow(i) == Max(0, i - BACKSTEP + 1)..i

\* the bars j the direction loop of bar i visits (line 185)
DirectionWindow(i) == Max(0, i - Depth - BACKSTEP)..i

\* direction[i] (lines 182-195); hr and lr are the arrays, entry j at j + 1
direction_value(hr, lr, i) ==
    LET not_greater == {j \in DirectionWindow(i) : hr[j + 1] <= lr[j + 1]}
        bars_since_hr_not_greater == IF not_greater = {} THEN 0 ELSE i - MaxOf(not_greater)
    IN  IF bars_since_hr_not_greater >= BACKSTEP THEN 0 - 1 ELSE 1

EmptyResult == [direction |-> <<>>, z2 |-> <<>>, hr |-> <<>>, lr |-> <<>>]

\* calculate_zigzag(df, depth, deviation, backstep, mintick): the lists
\* direction and z2 of its result, with the arrays hr and lr it computed
calculate_zigzag(bars, tick2) ==
    IF ~EnoughBars(Len(bars)) THEN EmptyResult
    ELSE LET n == Len(bars)
             hr == [k \in 1..n |-> IF k - 1 >= Depth + 1
                                   THEN hr_value(bars, k - 1, tick2) ELSE 0]
             lr == [k \in 1..n |-> IF k - 1 >= Depth + 1
                                   THEN lr_value(bars, k - 1, tick2) ELSE 0]
             direction == [k \in 1..n |-> IF k - 1 >= Depth + 1
                                          THEN direction_value(hr, lr, k - 1) ELSE 1]
         IN  [direction |-> direction, z2 |-> ZigzagUpTo(bars, direction, n).z2,
              hr |-> hr, lr |-> lr]

\* a df of any length, the empty one included
CalcInit ==
    /\ ServiceInit
    /\ EarlierIdle /\ FlushIdle /\ RestIdle /\ SymbolIdle /\ AlertIdle
    /\ ConfigIdle /\ SwingIdle
    /\ \E n \in 0..MaxSeries :
           zigzag_df \in [bars : [1..n -> BarShapes], tick2 : Ticks2]
    /\ zigzag_result = None
    /\ all_swings = None
    /\ swing_pruning_rate = [num |-> 3, den |-> 100]
    /\ zigzag_ret = None

CalcFrame ==
    UNCHANGED <<serviceVars, earlierVars, flushVars, restVars, symbolVars, alertVars,
                configVars, swingVars>>

\* calculate_zigzag called on df
CalculateZigzag ==
    /\ zigzag_result = None
    /\ zigzag_result' = calculate_zigzag(zigzag_df.bars, zigzag_df.tick2)
    /\ UNCHANGED zigzagVars
    /\ CalcFrame

\* get_zigzag_points called on df: calculate_zigzag (line 343), the empty
\* answer for an empty result (345-346) or for no swing (390-391), and steps 1
\* to 5 otherwise
GetZigzagPointsOfBars ==
    /\ zigzag_ret = None
    /\ \E result \in {calculate_zigzag(zigzag_df.bars, zigzag_df.tick2)} :
       \E swings \in {IF result.direction = <<>> THEN <<>>
                       ELSE CollectSwings(result.direction, result.z2)} :
           /\ zigzag_result' = result
           /\ all_swings' = swings
           /\ zigzag_ret' = IF swings = <<>>
                            THEN [filtered_swings |-> <<>>, swing_highs |-> <<>>,
                                  swing_lows |-> <<>>]
                            ELSE PruneSwings(swings, swing_pruning_rate)
    /\ UNCHANGED <<zigzag_df, swing_pruning_rate>>
    /\ CalcFrame

CalcNext == CalculateZigzag \/ GetZigzagPointsOfBars

CalcSpec == CalcInit /\ [][CalcNext]_vars

\* C31: for fewer than depth + backstep + 1 bars calculate_zigzag returns empty
\* lists and get_zigzag_points returns no swing
C31TooFewBarsGiveNothing ==
    Len(zigzag_df.bars) < Depth + BACKSTEP + 1 =>
        /\ zigzag_result # None =>
               zigzag_result.direction = <<>> /\ zigzag_result.z2 = <<>>
        /\ zigzag_ret # None =>
               zigzag_ret.swing_highs = <<>> /\ zigzag_ret.swing_lows = <<>>

\* get_zigzag_points has returned for a df one bar short of the minimum
C31Witness ==
    /\ Len(zigzag_df.bars) = Depth + BACKSTEP
    /\ zigzag_result = EmptyResult
    /\ zigzag_ret # None
    /\ zigzag_ret.swing_highs = <<>>

MaxIdx == 4

\* values of highs and of lows: moves of 0%, 2%, 7.8% and 10% from low to high
HighVals == {102, 110}

LowVals == {100, 102}

SwingRates == {[num |-> 0, den |-> 100], [num |-> 3, den |-> 100]}

InSeq(x, seq) == \E k \in 1..Len(seq) : seq[k] = x

Reverse(seq) == [k \in 1..Len(seq) |-> seq[Len(seq) + 1 - k]]

\* list.remove(x): the first element equal to x goes
RemoveFirst(seq, x) ==
    IF ~InSeq(x, seq) THEN seq
    ELSE LET k == CHOOSE a \in 1..Len(seq) :
                      seq[a] = x /\ \A b \in 1..(a - 1) : seq[b] # x
         IN  SubSeq(seq, 1, k - 1) \o SubSeq(seq, k + 1, Len(seq))

\* sorted(points, key=lambda x: x[0]) and list.sort(key=lambda x: x[0]):
\* stable, so points of one index keep their order
RECURSIVE SortByIndex(_)
SortByIndex(points) ==
    IF points = <<>> THEN <<>>
    ELSE LET front == SortByIndex(SubSeq(points, 1, Len(points) - 1))
             p == points[Len(points)]
             before == SelectSeq(front, LAMBDA q : q[1] <= p[1])
             after == SelectSeq(front, LAMBDA q : q[1] > p[1])
         IN  before \o <<p>> \o after

\* min(inside, key=value) or max(inside, key=value): the first one on a tie
\* (lines 124-127)
Selected(inside, keep) ==
    LET k == CHOOSE a \in 1..Len(inside) :
                 /\ \A b \in 1..Len(inside) :
                        IF keep = "min" THEN inside[a][2] <= inside[b][2]
                        ELSE inside[a][2] >= inside[b][2]
                 /\ \A b \in 1..(a - 1) : inside[b][2] # inside[a][2]
    IN  inside[k]

\* the loop of lines 111-129 after its first i rounds
RECURSIVE BetweenUpTo(_, _, _, _)
BetweenUpTo(points_main, points_other, keep, i) ==
    IF i = 0 THEN <<>>
    ELSE LET filtered == BetweenUpTo(points_main, points_other, keep, i - 1)
             start_idx == points_main[i][1]
             end_idx == points_main[i + 1][1]
             inside == SelectSeq(points_other,
                                 LAMBDA p : start_idx < p[1] /\ p[1] < end_idx)
         IN  IF inside = <<>> THEN filtered
             ELSE Append(filtered, Selected(inside, keep))

\* filter_between(points_main, points_other, keep)
filter_between(points_main, points_other, keep) ==
    IF points_main = <<>> \/ points_other = <<>> THEN <<>>
    ELSE IF Len(points_main) < 2 THEN points_other
    ELSE LET filtered == BetweenUpTo(points_main, points_other, keep,
                                     Len(points_main) - 1)
             with_first == IF InSeq(points_other[1], filtered) THEN filtered
                           ELSE <<points_other[1]>> \o filtered
         IN  IF InSeq(points_other[Len(points_other)], with_first) THEN with_first
             ELSE Append(with_first, points_other[Len(points_other)])

\* a comparison that never replaces the point kept for a run
FirstOfRun(t, val, kept) == FALSE

\* val > final_highs[-1][1] for a high, val < final_lows[-1][1] for a low
\* (lines 176, 179)
MoreExtreme(t, val, kept) == IF t = "H" THEN val > kept ELSE val < kept

ReplaceLast(seq, p) == [seq EXCEPT ![Len(seq)] = p]

\* one round of the loop of lines 172-187
AlternationStep(st, m) ==
    LET p == <<m[1], m[2]>>
        same == m[3] = st.last_type
        kept == IF m[3] = "H" THEN st.final_highs ELSE st.final_lows
        next == IF same
                THEN IF MoreExtreme(m[3], m[2], kept[Len(kept)][2])
                     THEN ReplaceLast(kept, p) ELSE kept
                ELSE Append(kept, p)
    IN  [final_highs |-> IF m[3] = "H" THEN next ELSE st.final_highs,
         final_lows |-> IF m[3] = "L" THEN next ELSE st.final_lows,
         last_type |-> m[3]]

RECURSIVE AlternationUpTo(_, _)
AlternationUpTo(merged, i) ==
    IF i = 0 THEN [final_highs |-> <<>>, final_lows |-> <<>>, last_type |-> "None"]
    ELSE AlternationStep(AlternationUpTo(merged, i - 1), merged[i])

\* the merged list of lines 159-165: highs before lows, then a stable sort
Merged(highs, lows) ==
    LET hs == SortByIndex(highs)
        ls == SortByIndex(lows)
    IN  SortByIndex([k \in 1..Len(hs) |-> <<hs[k][1], hs[k][2], "H">>]
                    \o [k \in 1..Len(ls) |-> <<ls[k][1], ls[k][2], "L">>])

\* enforce_strict_alternation(highs, lows)
enforce_strict_alternation(highs, lows) ==
    IF highs = <<>> /\ lows = <<>> THEN [highs |-> <<>>, lows |-> <<>>]
    ELSE LET merged == Merged(highs, lows)
             st == AlternationUpTo(merged, Len(merged))
         IN  [highs |-> st.final_highs, lows |-> st.final_lows]

\* left_rate < rate, with the rate of a low that is not positive taken as 0
\* (lines 240-241, 247)
RateBelow(h_val, low_val, rate) ==
    IF low_val > 0 THEN (h_val - low_val) * rate.den < rate.num * low_val
    ELSE 0 < rate.num

\* one round of the loop of lines 224-267
FilterRateStep(st, h, rate) ==
    LET left_candidates == SelectSeq(st.clean_lows, LAMBDA l : l[1] < h[1])
        right_candidates == SelectSeq(st.clean_lows, LAMBDA l : l[1] > h[1])
    IN  IF left_candidates = <<>> \/ right_candidates = <<>>
        THEN [st EXCEPT !.clean_highs = Append(@, h)]
        ELSE LET left_low == left_candidates[Len(left_candidates)]
                 right_low == right_candidates[1]
                 left_below == RateBelow(h[2], left_low[2], rate)
                 right_below == RateBelow(h[2], right_low[2], rate)
                 lower_low == IF left_low[2] < right_low[2] THEN left_low ELSE right_low
             IN  IF left_below /\ right_below
                 THEN [st EXCEPT !.clean_lows =
                           SelectSeq(@, LAMBDA l : l = lower_low
                                                   \/ l \notin {left_low, right_low})]
                 ELSE IF left_below
                 THEN [st EXCEPT !.clean_lows = RemoveFirst(@, left_low)]
                 ELSE IF right_below
                 THEN [st EXCEPT !.clean_lows = RemoveFirst(@, right_low)]
                 ELSE [st EXCEPT !.clean_highs = Append(@, h)]

RECURSIVE FilterRateUpTo(_, _, _, _)
FilterRateUpTo(highs, lows, rate, i) ==
    IF i = 0 THEN [clean_highs |-> <<>>, clean_lows |-> lows]
    ELSE FilterRateStep(FilterRateUpTo(highs, lows, rate, i - 1), highs[i], rate)

\* filter_rate(highs, lows, rate)
filter_rate(highs, lows, rate) ==
    IF highs = <<>> /\ lows = <<>> THEN [highs |-> <<>>, lows |-> <<>>]
    ELSE IF rate.num <= 0 THEN [highs |-> highs, lows |-> lows]
    ELSE LET st == FilterRateUpTo(highs, lows, rate, Len(highs))
         IN  enforce_strict_alternation(st.clean_highs, st.clean_lows)

\* what an index holds: nothing, a high or a low
SwingSlots == {<<"-", 0>>} \cup ({"H"} \X HighVals) \cup ({"L"} \X LowVals)

\* the points of type t in index order
RECURSIVE PointsUpTo(_, _, _)
PointsUpTo(slots, t, n) ==
    IF n = 0 THEN <<>>
    ELSE IF slots[n][1] = t
    THEN Append(PointsUpTo(slots, t, n - 1), <<n, slots[n][2]>>)
    ELSE PointsUpTo(slots, t, n - 1)

SwingCalls ==
    LET lists == {[highs |-> PointsUpTo(slots, "H", MaxIdx),
                   lows |-> PointsUpTo(slots, "L", MaxIdx)] :
                      slots \in [1..MaxIdx -> SwingSlots]}
    IN  {[fn |-> "filter_rate", highs |-> l.highs, lows |-> l.lows, rate |-> r] :
             l \in lists, r \in SwingRates}
        \cup {[fn |-> "filter_between", points_main |-> l.highs,
               points_other |-> l.lows, keep |-> k] :
                 l \in lists, k \in {"min", "max"}}
        \cup {[fn |-> "enforce_strict_alternation", highs |-> l.highs,
               lows |-> l.lows, again |-> FALSE] : l \in lists}
        \cup {[fn |-> "enforce_strict_alternation", highs |-> Reverse(l.highs),
               lows |-> Reverse(l.lows), again |-> FALSE] : l \in lists}

SwingInit ==
    /\ ServiceInit
    /\ EarlierIdle /\ FlushIdle /\ RestIdle /\ SymbolIdle /\ ZigzagIdle /\ AlertIdle
    /\ ConfigIdle /\ CalcIdle
    /\ swing_call \in SwingCalls
    /\ swing_ret = None

SwingFrame ==
    UNCHANGED <<serviceVars, earlierVars, flushVars, restVars, symbolVars, zigzagVars,
                alertVars, configVars, calcVars>>

FilterRate ==
    /\ swing_call.fn = "filter_rate"
    /\ swing_ret = None
    /\ swing_ret' = filter_rate(swing_call.highs, swing_call.lows, swing_call.rate)
    /\ UNCHANGED swing_call
    /\ SwingFrame

FilterBetween ==
    /\ swing_call.fn = "filter_between"
    /\ swing_ret = None
    /\ swing_ret' = [filtered |-> filter_between(swing_call.points_main,
                                                 swing_call.points_other,
                                                 swing_call.keep)]
    /\ UNCHANGED swing_call
    /\ SwingFrame

EnforceStrictAlternation ==
    /\ swing_call.fn = "enforce_strict_alternation"
    /\ swing_ret = None
    /\ swing_ret' = enforce_strict_alternation(swing_call.highs, swing_call.lows)
    /\ UNCHANGED swing_call
    /\ SwingFrame

\* enforce_strict_alternation called on what it returned
EnforceAgain ==
    /\ swing_call.fn = "enforce_strict_alternation"
    /\ ~swing_call.again
    /\ swing_ret # None
    /\ swing_call' = [swing_call EXCEPT !.highs = swing_ret.highs,
                                        !.lows = swing_ret.lows, !.again = TRUE]
    /\ swing_ret' = enforce_strict_alternation(swing_ret.highs, swing_ret.lows)
    /\ SwingFrame

SwingNext == FilterRate \/ FilterBetween \/ EnforceStrictAlternation \/ EnforceAgain

SwingSpec == SwingInit /\ [][SwingNext]_vars

\* the points of two lists with their types
TypedPoints(highs, lows) ==
    {<<highs[k][1], highs[k][2], "H">> : k \in 1..Len(highs)}
    \cup {<<lows[k][1], lows[k][2], "L">> : k \in 1..Len(lows)}

\* C33: for rate > 0 the earliest and the latest point of the input of
\* filter_rate, over highs and lows together, are in the lists it returns
C33AsClaimed ==
    (swing_call.fn = "filter_rate" /\ swing_call.rate.num > 0 /\ swing_ret # None) =>
        LET input == TypedPoints(swing_call.highs, swing_call.lows)
            output == TypedPoints(swing_ret.highs, swing_ret.lows)
        IN  \A p \in input :
                (\/ \A q \in input : p[1] <= q[1]
                 \/ \A q \in input : q[1] <= p[1]) => p \in output

\* the output of filter_between is the first and the last of points_other and
\* one minimum (maximum) of the points strictly between each adjacent pair
BetweenAsClaimed(points_main, points_other, keep, filtered) ==
    LET out == {filtered[k] : k \in 1..Len(filtered)}
        ends == {points_other[1], points_other[Len(points_other)]}
        between(i) == {points_other[k] : k \in {a \in 1..Len(points_other) :
                           /\ points_main[i][1] < points_other[a][1]
                           /\ points_other[a][1] < points_main[i + 1][1]}}
        extremes(i) == {p \in between(i) : \A q \in between(i) :
                           IF keep = "min" THEN p[2] <= q[2] ELSE p[2] >= q[2]}
        pairs == 1..(Len(points_main) - 1)
    IN  /\ ends \subseteq out
        /\ \A i \in pairs : between(i) # {} => out \cap extremes(i) # {}
        /\ \A p \in out : p \in ends \/ \E i \in pairs : p \in extremes(i)
        /\ \A i \in pairs : Cardinality((out \cap between(i)) \ ends) <= 1

\* C34: for time-sorted inputs with points_other non-empty filter_between
\* returns exactly the first and the last of points_other and the minimum or
\* maximum between each adjacent pair of points_main, whatever the length of
\* points_main, 0 and 1 included
C34AsClaimed ==
    (/\ swing_call.fn = "filter_between"
     /\ swing_ret # None
     /\ swing_call.points_other # <<>>) =>
        BetweenAsClaimed(swing_call.points_main, swing_call.points_other,
                         swing_call.keep, swing_ret.filtered)

\* two points of one type with no point of the other type between them
SameRun(points, p, q) ==
    /\ p[3] = q[3]
    /\ ~\E r \in points : /\ r[3] # p[3]
                          /\ \/ p[1] < r[1] /\ r[1] < q[1]
                             \/ q[1] < r[1] /\ r[1] < p[1]

\* C35: enforce_strict_alternation keeps of every maximal run of same-type
\* points one point, a highest high or a lowest low of the run; its output
\* alternates; called on its own output it returns it unchanged
C35RunsCollapsed ==
    (swing_call.fn = "enforce_strict_alternation" /\ swing_ret # None) =>
        LET input == TypedPoints(swing_call.highs, swing_call.lows)
            output == TypedPoints(swing_ret.highs, swing_ret.lows)
        IN  /\ output \subseteq input
            /\ Len(swing_ret.highs) + Len(swing_ret.lows) = Cardinality(output)
            /\ \A p \in input :
                   Cardinality({q \in output : SameRun(input, p, q)}) = 1
            /\ \A q \in output : \A p \in input :
                   SameRun(input, p, q) =>
                       IF q[3] = "H" THEN p[2] <= q[2] ELSE p[2] >= q[2]
            /\ \A p \in output : \A q \in output :
                   p # q => ~SameRun(output, p, q)
            /\ swing_call.again =>
                   /\ swing_ret.highs = swing_call.highs
                   /\ swing_ret.lows = swing_call.lows

\* a run of highs whose highest is not its first and a run of lows whose lowest
\* is not its first have been collapsed
C35Witness ==
    /\ swing_call.fn = "enforce_strict_alternation"
    /\ ~swing_call.again
    /\ swing_ret # None
    /\ \E a \in 1..Len(swing_call.highs) : \E b \in 1..Len(swing_call.highs) :
           /\ swing_call.highs[a][1] < swing_call.highs[b][1]
           /\ swing_call.highs[a][2] < swing_call.highs[b][2]
           /\ SameRun(TypedPoints(swing_call.highs, swing_call.lows),
                      <<swing_call.highs[a][1], swing_call.highs[a][2], "H">>,
                      <<swing_call.highs[b][1], swing_call.highs[b][2], "H">>)
    /\ \E a \in 1..Len(swing_call.lows) : \E b \in 1..Len(swing_call.lows) :
           /\ swing_call.lows[a][1] < swing_call.lows[b][1]
           /\ swing_call.lows[a][2] > swing_call.lows[b][2]
           /\ SameRun(TypedPoints(swing_call.highs, swing_call.lows),
                      <<swing_call.lows[a][1], swing_call.lows[a][2], "L">>,
                      <<swing_call.lows[b][1], swing_call.lows[b][2], "L">>)
    /\ Len(swing_ret.highs) = 1
    /\ Len(swing_ret.lows) = 1

====
